---- MODULE Spec2Model ----
(***************************************************************************)
(* Model of the valtio-plugin hook dispatch engine (src/src/index.ts).     *)
(*                                                                         *)
(* The state is the module-level state of index.ts (the global registry,   *)
(* the instance registries, the cache generation, the per-object plugin    *)
(* cache, the current instance context) together with the objects of the   *)
(* reactive substrate (their fields and the hidden metadata symbols).      *)
(* Every public operation and every proxy trap is one action.  Hooks are   *)
(* the functions of a fixed catalogue of plugin descriptors.  The hooks of *)
(* Catalogue do not call back into the plugin system; those of Acting do   *)
(* (dispose, createInstance, use, clearPlugins, a write), and the          *)
(* operations that run them are translated as functions of the state so    *)
(* that a call made by a hook runs inside the action of the operation.     *)
(*                                                                         *)
(* JavaScript values are encoded as integers:                              *)
(*   0, 1 primitive numbers, JsFalse / JsTrue the booleans, Undefined,     *)
(*   Thrown (a hook or operation ended with an exception), Ref(o) the      *)
(*   object o.  Instance ids are 1, 2, ...; every "valtio-global-N" id is  *)
(*   GlobalId, since such an id is never a key of instanceRegistry and is  *)
(*   only ever looked up there.                                            *)
(***************************************************************************)
EXTENDS Integers, Sequences, FiniteSets

\* ------------------------------------------------------------------ bounds
MaxInstances == 2
MaxGeneration == 2
MaxObjects == 2
\* instances and objects together
MaxAllocations == 3
\* the same three for the operations on nested objects
DeepInstances == 1
DeepObjects == 3
DeepAllocations == 4
\* instances, objects and generations for the operations that tag
TagInstances == 2
TagObjects == 2
TagGeneration == 1
\* instances, objects and generations for the writes that pass through
PassInstances == 1
PassObjects == 2
PassGeneration == 1
\* instances, objects and generations for the writes that move a node
PathInstances == 1
PathObjects == 2
PathGeneration == 1
\* instances and generations for the disposals with hooks that call back
NestInstances == 3
NestGeneration == 4
\* instances, objects and generations for the traps with hooks that call back
ActInstances == 1
ActObjects == 2
ActGeneration == 3
\* instances and generations for the operations on plugin lists and scopes
LookupInstances == 3
LookupGeneration == 3

\* ------------------------------------------------------------ value encoding
Undefined == -1
Thrown == -2
JsFalse == 2
JsTrue == 3
NoId == 0
GlobalId == -3

Prims == {0, 1}
Keys == {"a", "b"}
Ref(o) == 10 + o
IsRef(v) == v >= 10
ObjOf(v) == v - 10

\* isObject, src/src/index.ts:78
isObject(v) == IsRef(v)

\* ------------------------------------------------------- plugin descriptors
\* The catalogue of ValtioPlugin descriptors that use() is called with.
\*   A   id "a": every hook; transforms negate a number, beforeChange -> true,
\*               canProxy -> true, onAttach throws
\*   B   id "a": a second descriptor with A's id, without onGetRaw and
\*               canProxy; vetoes a write of 0 and a delete of a stored 0;
\*               transforms the value of key "b" to 1; onGet returns 1
\*   T   id "t": every hook throws (it has no onGetRaw)
\*   R   id "r": onGetRaw, which throws, and canProxy, which returns false
Catalogue == {"A", "B", "T", "R"}

\* Descriptors whose hooks call back into the plugin system; each is made for
\* the handle `inst` of the scope it is registered on.
\*   D   id "d": onDispose() { if (!running) { running = true;
\*               try { inst.dispose() } finally { running = false } } }
\*   K   id "k": onDispose() { inst.createInstance() }
\* and, for the handle `first` of the first instance and the first root `one`:
\*   U   id "u": transformSet() { proxy.use(T) }
\*   C   id "c": beforeChange() { proxy.clearPlugins() }, and an afterChange
\*   I   id "i": transformSet() { first.use(T) }
\*   W   id "w": beforeChange and afterChange, both
\*               () => { if (!running) { running = true;
\*                       try { one.a = 1 } finally { running = false } } }
Acting == {"D", "K", "U", "C", "I", "W"}

PluginId(p) ==
    CASE p = "A" -> "a" [] p = "B" -> "a" [] p = "T" -> "t" [] p = "R" -> "r"
      [] p = "D" -> "d" [] p = "K" -> "k" [] p = "U" -> "u" [] p = "C" -> "c"
      [] p = "I" -> "i" [] p = "W" -> "w"

HookNames ==
    {"onInit", "onAttach", "onDispose", "canProxy", "onGet", "onGetRaw",
     "transformGet", "transformSet", "beforeChange", "afterChange",
     "onSubscribe", "onSnapshot"}

HooksOf(p) ==
    CASE p = "A" -> HookNames
      [] p = "B" -> HookNames \ {"onGetRaw", "canProxy"}
      [] p = "T" -> HookNames \ {"onGetRaw"}
      [] p = "R" -> {"onGetRaw", "canProxy"}
      [] p \in {"D", "K"} -> {"onDispose"}
      [] p \in {"U", "I"} -> {"transformSet"}
      [] p \in {"C", "W"} -> {"beforeChange", "afterChange"}

HasHook(p, h) == h \in HooksOf(p)

LastKey(path) == IF Len(path) = 0 THEN "" ELSE path[Len(path)]

\* What the hook h of descriptor p returns when called with (path, value, prev).
HookResult(p, h, path, value, prev) ==
    IF p = "T" THEN Thrown
    ELSE IF p = "R" THEN (IF h = "canProxy" THEN JsFalse ELSE Thrown)
    ELSE IF h \in {"transformGet", "transformSet"} THEN
        CASE p = "A" -> IF value \in Prims THEN 1 - value ELSE Undefined
          [] p = "B" -> IF value \in Prims /\ LastKey(path) = "b" THEN 1 ELSE Undefined
          [] p \in Acting -> Undefined
    ELSE IF h = "beforeChange" THEN
        CASE p = "A" -> JsTrue
          [] p = "B" -> IF value = 0 \/ (value = Undefined /\ prev = 0)
                        THEN JsFalse ELSE Undefined
          [] p \in Acting -> Undefined
    ELSE IF h = "canProxy" THEN
        IF p = "A" THEN JsTrue ELSE Undefined
    ELSE IF h = "onAttach" THEN
        IF p = "A" THEN Thrown ELSE Undefined
    ELSE IF h = "onGet" THEN
        IF p = "B" THEN 1 ELSE Undefined
    ELSE Undefined

\* One hook invocation, as it is recorded in the log of the operation.
Call(h, pos, p, inst, path, value, prev, root) ==
    [hook |-> h, pos |-> pos, plugin |-> p, inst |-> inst, path |-> path,
     value |-> value, prev |-> prev, root |-> root,
     ret |-> HookResult(p, h, path, value, prev)]

VARIABLES
    globalPluginRegistry,    \* Seq of descriptors
    globalRawHooksCount,
    registries,              \* the InstanceRegistry objects ever created, by id
    instanceRegistry,        \* the ids that are keys of the instanceRegistry Map
    pluginCacheGeneration,
    pluginCache,             \* WeakMap: <<object, "proxy"|"target">> -> cached chain
    currentInstanceContext,
    heap,                    \* the substrate's objects: fields, proxied, metadata
    held,                    \* the objects the caller holds a reference to
    last                     \* the most recent operation and its hook calls

vars == <<globalPluginRegistry, globalRawHooksCount, registries, instanceRegistry,
          pluginCacheGeneration, pluginCache, currentInstanceContext, heap, held, last>>

\* ------------------------------------------------------------------ helpers
\* findIndex((p) => p.id === id): the first position with that id, 0 if none
FindIndex(plugins, id) ==
    IF \E i \in 1..Len(plugins) : PluginId(plugins[i]) = id
    THEN CHOOSE i \in 1..Len(plugins) :
            /\ PluginId(plugins[i]) = id
            /\ \A j \in 1..(i - 1) : PluginId(plugins[j]) # id
    ELSE 0

\* pop() in the place of splice(index, 1): the last element goes.
RemoveLast(s, i) == SubSeq(s, 1, Len(s) - 1)

RemoveAt(s, i) == SubSeq(s, 1, i - 1) \o SubSeq(s, i + 1, Len(s))

\* The loop that the first exception of a hook leaves.
RECURSIVE HookCallsUntilThrown(_, _, _, _, _, _, _, _)
HookCallsUntilThrown(chain, pos, h, inst, path, value, prev, root) ==
    IF pos > Len(chain) THEN <<>>
    ELSE IF ~HasHook(chain[pos], h)
    THEN HookCallsUntilThrown(chain, pos + 1, h, inst, path, value, prev, root)
    ELSE LET c == Call(h, pos, chain[pos], inst, path, value, prev, root)
         IN  IF c.ret = Thrown THEN <<c>>
             ELSE <<c>> \o HookCallsUntilThrown(chain, pos + 1, h, inst, path,
                                                value, prev, root)

\* The loop running from the end of the chain to its start.
RECURSIVE HookCallsBackwards(_, _, _, _, _, _, _, _)
HookCallsBackwards(chain, pos, h, inst, path, value, prev, root) ==
    IF pos > Len(chain) THEN <<>>
    ELSE HookCallsBackwards(chain, pos + 1, h, inst, path, value, prev, root)
         \o (IF HasHook(chain[pos], h)
             THEN <<Call(h, pos, chain[pos], inst, path, value, prev, root)>>
             ELSE <<>>)

\* The calls of hook h over a chain, every plugin that has the hook, in the
\* order of the chain (a for..of loop whose body does not leave the loop).
RECURSIVE HookCalls(_, _, _, _, _, _, _, _)
HookCalls(chain, pos, h, inst, path, value, prev, root) ==
    IF pos > Len(chain) THEN <<>>
    ELSE (IF HasHook(chain[pos], h)
          THEN <<Call(h, pos, chain[pos], inst, path, value, prev, root)>>
          ELSE <<>>)
         \o HookCalls(chain, pos + 1, h, inst, path, value, prev, root)

\* ------------------------------------------------------------ cached chains
NoChain == [set |-> FALSE, plugins |-> <<>>, gen |-> Undefined, inst |-> NoId]

NewRegistry(parentInstanceId) ==
    [parentId |-> parentInstanceId, plugins |-> <<>>, isDisposed |-> FALSE,
     children |-> {}, rawHooksCount |-> 0, cachedPluginChain |-> NoChain]

PluginCacheKeys == (1..DeepObjects) \X {"proxy", "target"}

NoCache == [k \in PluginCacheKeys |-> NoChain]

\* The invalidation that leaves the chains cached on the registries.
invalidateGenerationOnly(st) == [st EXCEPT !.gen = @ + 1, !.pc = NoCache]

\* invalidatePluginCaches on st = [regs, inMap, gen, pc]: the generation is
\* bumped and every registry in the Map loses its cached chain.  The entries
\* of pluginCache all carry an older generation from now on; the generation
\* only grows, so none of them can be returned again, and they are dropped.
invalidatePluginCaches(st) ==
    [st EXCEPT !.gen = @ + 1,
               !.regs = [i \in DOMAIN @ |->
                            IF i \in st.inMap
                            THEN [@[i] EXCEPT !.cachedPluginChain = NoChain]
                            ELSE @[i]],
               !.pc = NoCache]

\* the module state in the shape invalidatePluginCaches works on
Caches(regs) ==
    [regs |-> regs, inMap |-> instanceRegistry, gen |-> pluginCacheGeneration,
     pc |-> pluginCache]

\* The walk that collects every instance of the Map.
HierarchyEveryInstance(instanceId, regs, inMap) ==
    LET RECURSIVE Asc(_)
        Asc(S) == IF S = {} THEN <<>>
                  ELSE LET m == CHOOSE x \in S : \A y \in S : x <= y
                       IN  <<m>> \o Asc(S \ {m})
    IN  Asc(inMap)

\* the while loop of buildInstancePluginChain: ids from the topmost ancestor
\* down to instanceId (the walk stops above an id that is not in the Map)
RECURSIVE Hierarchy(_, _, _)
Hierarchy(instanceId, regs, inMap) ==
    IF instanceId = NoId THEN <<>>
    ELSE IF instanceId \notin inMap THEN <<instanceId>>
    ELSE Hierarchy(regs[instanceId].parentId, regs, inMap) \o <<instanceId>>

RECURSIVE HierarchyPlugins(_, _, _)
HierarchyPlugins(hierarchy, regs, inMap) ==
    IF Len(hierarchy) = 0 THEN <<>>
    ELSE (IF Head(hierarchy) \in inMap /\ ~regs[Head(hierarchy)].isDisposed
          THEN regs[Head(hierarchy)].plugins ELSE <<>>)
         \o HierarchyPlugins(Tail(hierarchy), regs, inMap)

\* The chain with the global plugins after the instance plugins.
buildInstancePluginChainGlobalsLast(instanceId, globals, regs, inMap) ==
    HierarchyPlugins(Hierarchy(instanceId, regs, inMap), regs, inMap) \o globals

buildInstancePluginChain(instanceId, globals, regs, inMap) ==
    globals \o HierarchyPlugins(Hierarchy(instanceId, regs, inMap), regs, inMap)

RECURSIVE getInstanceRawHooksCount(_, _, _)
getInstanceRawHooksCount(instanceId, regs, inMap) ==
    IF instanceId = NoId \/ instanceId \notin inMap THEN 0
    ELSE regs[instanceId].rawHooksCount
         + getInstanceRawHooksCount(regs[instanceId].parentId, regs, inMap)

\* getApplicablePlugins(obj): the chain, and the caches as it leaves them.
\* obj is the proxy (side "proxy") or its target (side "target"); instanceId
\* is the INSTANCE_ID_SYMBOL of obj (NoId when it has none).
getApplicablePlugins(o, side, instanceId, regs, pc) ==
    LET same(chain) == [chain |-> chain, regs |-> regs, pc |-> pc]
        cached == pc[<<o, side>>]
    IN  IF Len(globalPluginRegistry) = 0 /\ instanceRegistry = {} THEN same(<<>>)
        ELSE IF instanceId = NoId THEN same(globalPluginRegistry)
        ELSE IF cached.set /\ cached.gen = pluginCacheGeneration
                /\ cached.inst = instanceId
             THEN same(cached.plugins)
        ELSE IF instanceId \in instanceRegistry THEN
            LET built == IF regs[instanceId].cachedPluginChain.set
                         THEN regs[instanceId].cachedPluginChain.plugins
                         ELSE buildInstancePluginChain(instanceId, globalPluginRegistry,
                                                       regs, instanceRegistry)
                result == [set |-> TRUE, plugins |-> built,
                           gen |-> pluginCacheGeneration, inst |-> instanceId]
            IN  [chain |-> built,
                 regs |-> [regs EXCEPT ![instanceId].cachedPluginChain = result],
                 pc |-> [pc EXCEPT ![<<o, side>>] = result]]
        ELSE same(globalPluginRegistry)

\* getApplicablePluginsUncached(instanceId)
getApplicablePluginsUncached(instanceId, regs) ==
    IF instanceId = NoId \/ instanceId \notin instanceRegistry
    THEN [chain |-> globalPluginRegistry, regs |-> regs]
    ELSE IF regs[instanceId].cachedPluginChain.set
    THEN [chain |-> regs[instanceId].cachedPluginChain.plugins, regs |-> regs]
    ELSE LET built == buildInstancePluginChain(instanceId, globalPluginRegistry,
                                               regs, instanceRegistry)
         IN  [chain |-> built,
              regs |-> [regs EXCEPT ![instanceId].cachedPluginChain =
                          [NoChain EXCEPT !.set = TRUE, !.plugins = built]]]

\* ---------------------------------------------------------------- metadata
NoMeta == [rootProxy |-> 0, instanceId |-> NoId, path |-> <<>>,
           isGlobal |-> Undefined, rawHooksCount |-> Undefined]

\* addMetaData: a symbol is (re)defined only when the given value passes the
\* test of its if statement.
addMetaData(old, meta) ==
    [rootProxy |-> IF meta.rootProxy # 0 THEN meta.rootProxy ELSE old.rootProxy,
     instanceId |-> IF meta.instanceId # NoId THEN meta.instanceId ELSE old.instanceId,
     path |-> IF Len(meta.path) > 0 THEN meta.path ELSE old.path,
     isGlobal |-> IF meta.isGlobal # Undefined THEN meta.isGlobal ELSE old.isGlobal,
     rawHooksCount |-> IF meta.rawHooksCount # Undefined
                       THEN meta.rawHooksCount ELSE old.rawHooksCount]

hasRootProxy(hp, o) == hp[o].meta.rootProxy # 0

NoFields == [k \in Keys |-> Undefined]

\* ------------------------------------------------------------- operations
NoOp == [op |-> "none", scope |-> NoId, node |-> 0, key |-> "", arg |-> Undefined,
         ret |-> Undefined, prev |-> Undefined, chain |-> <<>>, calls |-> <<>>]

Op(name, scope, node, key, arg, ret, prev, chain, calls) ==
    [op |-> name, scope |-> scope, node |-> node, key |-> key, arg |-> arg,
     ret |-> ret, prev |-> prev, chain |-> chain, calls |-> calls]

\* "This instance has been disposed": the operation throws at its first
\* statement and nothing else happens.
ThrowDisposed(name, scope, node) ==
    /\ last' = Op(name, scope, node, "", Undefined, Thrown, Undefined, <<>>, <<>>)
    /\ UNCHANGED <<globalPluginRegistry, globalRawHooksCount, registries,
                   instanceRegistry, pluginCacheGeneration, pluginCache,
                   currentInstanceContext, heap, held>>

Init ==
    /\ globalPluginRegistry = <<>>
    /\ globalRawHooksCount = 0
    /\ registries = <<>>
    /\ instanceRegistry = {}
    /\ pluginCacheGeneration = 0
    /\ pluginCache = NoCache
    /\ currentInstanceContext = NoId
    /\ heap = <<>>
    /\ held = {}
    /\ last = NoOp

Instances == DOMAIN registries

\* createProxyInstance(parentInstanceId), reached through proxy.createInstance()
\* (parent = NoId) or through the createInstance of an instance handle.
CreateInstance(parent) ==
    IF parent # NoId /\ registries[parent].isDisposed
    THEN ThrowDisposed("createInstance", parent, 0)
    ELSE
        /\ LET instanceId == Len(registries) + 1
               added == Append(registries, NewRegistry(parent))
           IN  /\ registries' =
                    IF parent # NoId /\ parent \in instanceRegistry
                    THEN [added EXCEPT ![parent].children = @ \cup {instanceId}]
                    ELSE added
               /\ instanceRegistry' = instanceRegistry \cup {instanceId}
               /\ last' = Op("createInstance", parent, 0, "", Undefined,
                             instanceId, Undefined, <<>>, <<>>)
        /\ UNCHANGED <<globalPluginRegistry, globalRawHooksCount,
                       pluginCacheGeneration, pluginCache, currentInstanceContext,
                       heap, held>>

RawOf(p) == IF HasHook(p, "onGetRaw") THEN 1 ELSE 0

\* The loop that appends every plugin, whether or not its id is in the list.
RECURSIVE RegisterAllAppending(_, _, _, _, _)
RegisterAllAppending(pluginsToAdd, plugins, rawHooksCount, scope, calls) ==
    IF Len(pluginsToAdd) = 0
    THEN [plugins |-> plugins, rawHooksCount |-> rawHooksCount, calls |-> calls]
    ELSE
        LET plugin == Head(pluginsToAdd)
            attach == IF HasHook(plugin, "onAttach")
                      THEN <<Call("onAttach", Len(plugins) + 1, plugin, scope, <<>>,
                                  Undefined, Undefined, 0)>>
                      ELSE <<>>
        IN  RegisterAllAppending(Tail(pluginsToAdd), Append(plugins, plugin),
                                 rawHooksCount + RawOf(plugin), scope, calls \o attach)

\* The loop that an exception of onAttach leaves: the plugins after the one
\* whose hook threw are not looked at.
RECURSIVE RegisterAllUntilThrown(_, _, _, _, _)
RegisterAllUntilThrown(pluginsToAdd, plugins, rawHooksCount, scope, calls) ==
    IF Len(pluginsToAdd) = 0
    THEN [plugins |-> plugins, rawHooksCount |-> rawHooksCount, calls |-> calls]
    ELSE
        LET plugin == Head(pluginsToAdd)
            existingIndex == FindIndex(plugins, PluginId(plugin))
            newPlugins == IF existingIndex > 0
                          THEN [plugins EXCEPT ![existingIndex] = plugin]
                          ELSE Append(plugins, plugin)
            newRaw == IF existingIndex > 0
                      THEN rawHooksCount - RawOf(plugins[existingIndex]) + RawOf(plugin)
                      ELSE rawHooksCount + RawOf(plugin)
            at == IF existingIndex > 0 THEN existingIndex ELSE Len(plugins) + 1
            attach == IF HasHook(plugin, "onAttach")
                      THEN <<Call("onAttach", at, plugin, scope, <<>>,
                                  Undefined, Undefined, 0)>>
                      ELSE <<>>
        IN  IF Len(attach) = 1 /\ attach[1].ret = Thrown
            THEN [plugins |-> newPlugins, rawHooksCount |-> newRaw,
                  calls |-> calls \o attach]
            ELSE RegisterAllUntilThrown(Tail(pluginsToAdd), newPlugins, newRaw,
                                        scope, calls \o attach)

\* The body of the for loop of use(): replace in place the plugin with the
\* same id, or append; keep the raw hook count; call onAttach.
RECURSIVE RegisterAll(_, _, _, _, _)
RegisterAll(pluginsToAdd, plugins, rawHooksCount, scope, calls) ==
    IF Len(pluginsToAdd) = 0
    THEN [plugins |-> plugins, rawHooksCount |-> rawHooksCount, calls |-> calls]
    ELSE
        LET plugin == Head(pluginsToAdd)
            existingIndex == FindIndex(plugins, PluginId(plugin))
            newPlugins == IF existingIndex > 0
                          THEN [plugins EXCEPT ![existingIndex] = plugin]
                          ELSE Append(plugins, plugin)
            newRaw == IF existingIndex > 0
                      THEN rawHooksCount - RawOf(plugins[existingIndex]) + RawOf(plugin)
                      ELSE rawHooksCount + RawOf(plugin)
            at == IF existingIndex > 0 THEN existingIndex ELSE Len(plugins) + 1
            attach == IF HasHook(plugin, "onAttach")
                      THEN <<Call("onAttach", at, plugin, scope, <<>>,
                                  Undefined, Undefined, 0)>>
                      ELSE <<>>
        IN  RegisterAll(Tail(pluginsToAdd), newPlugins, newRaw, scope, calls \o attach)

\* the arguments of use(): a single plugin, or an array of plugins
UseBatches == {<<p>> : p \in Catalogue} \cup {<<"A", "T">>}

\* proxy.use(plugins) for scope = NoId, instance.use(plugins) otherwise
Use(scope, pluginsToAdd) ==
    IF scope # NoId /\ registries[scope].isDisposed
    THEN ThrowDisposed("use", scope, 0)
    ELSE
        /\ LET r == IF scope = NoId
                    THEN RegisterAll(pluginsToAdd, globalPluginRegistry,
                                     globalRawHooksCount, scope, <<>>)
                    ELSE RegisterAll(pluginsToAdd, registries[scope].plugins,
                                     registries[scope].rawHooksCount, scope, <<>>)
               regs == IF scope = NoId THEN registries
                       ELSE [registries EXCEPT ![scope].plugins = r.plugins,
                                               ![scope].rawHooksCount = r.rawHooksCount]
               inv == invalidatePluginCaches(Caches(regs))
           IN  /\ globalPluginRegistry' =
                    IF scope = NoId THEN r.plugins ELSE globalPluginRegistry
               /\ globalRawHooksCount' =
                    IF scope = NoId THEN r.rawHooksCount ELSE globalRawHooksCount
               /\ registries' = inv.regs
               /\ pluginCacheGeneration' = inv.gen
               /\ pluginCache' = inv.pc
               /\ last' = Op("use", scope, 0, "", Undefined, Undefined, Undefined,
                             pluginsToAdd, r.calls)
        /\ UNCHANGED <<instanceRegistry, currentInstanceContext, heap, held>>

\* proxy.removePlugin(pluginId)
RemovePlugin(pluginId) ==
    LET index == FindIndex(globalPluginRegistry, pluginId)
    IN  IF index = 0
        THEN /\ last' = Op("removePlugin", NoId, 0, pluginId, Undefined, JsFalse,
                           Undefined, <<>>, <<>>)
             /\ UNCHANGED <<globalPluginRegistry, globalRawHooksCount, registries,
                            instanceRegistry, pluginCacheGeneration, pluginCache,
                            currentInstanceContext, heap, held>>
        ELSE /\ globalPluginRegistry' = RemoveAt(globalPluginRegistry, index)
             /\ globalRawHooksCount' =
                    globalRawHooksCount - RawOf(globalPluginRegistry[index])
             /\ LET inv == invalidatePluginCaches(Caches(registries))
                IN  /\ registries' = inv.regs
                    /\ pluginCacheGeneration' = inv.gen
                    /\ pluginCache' = inv.pc
             /\ last' = Op("removePlugin", NoId, 0, pluginId, Undefined, JsTrue,
                           Undefined, <<>>,
                           IF HasHook(globalPluginRegistry[index], "onDispose")
                           THEN <<Call("onDispose", index, globalPluginRegistry[index],
                                       NoId, <<>>, Undefined, Undefined, 0)>>
                           ELSE <<>>)
             /\ UNCHANGED <<instanceRegistry, currentInstanceContext, heap, held>>

\* proxy.clearPlugins()
ClearPlugins ==
    /\ globalPluginRegistry' = <<>>
    /\ globalRawHooksCount' = 0
    /\ LET inv == invalidatePluginCaches(Caches(registries))
       IN  /\ registries' = inv.regs
           /\ pluginCacheGeneration' = inv.gen
           /\ pluginCache' = inv.pc
    /\ last' = Op("clearPlugins", NoId, 0, "", Undefined, Undefined, Undefined, <<>>,
                  HookCalls(globalPluginRegistry, 1, "onDispose", NoId, <<>>,
                            Undefined, Undefined, 0))
    /\ UNCHANGED <<instanceRegistry, currentInstanceContext, heap, held>>

\* The ids of a set in ascending order: a Set iterates in insertion order, and
\* children are inserted in the order of their creation.
RECURSIVE Ascending(_)
Ascending(S) ==
    IF S = {} THEN <<>>
    ELSE LET m == CHOOSE x \in S : \A y \in S : x <= y
         IN  <<m>> \o Ascending(S \ {m})

\* disposeInstanceRecursively(instanceId) on st = [regs, inMap, gen, pc, calls]
RECURSIVE disposeInstanceRecursively(_, _)
RECURSIVE DisposeChildren(_, _)
DisposeChildren(children, st) ==
    IF Len(children) = 0 THEN st
    ELSE DisposeChildren(Tail(children), disposeInstanceRecursively(Head(children), st))

\* The disposal that does not set isDisposed.
disposeInstanceUnmarked(instanceId, st) ==
    IF instanceId \notin st.inMap \/ st.regs[instanceId].isDisposed THEN st
    ELSE
        LET s1 == DisposeChildren(Ascending(st.regs[instanceId].children), st)
            parentId == s1.regs[instanceId].parentId
            unlinked == IF parentId # NoId /\ parentId \in s1.inMap
                        THEN [s1.regs EXCEPT ![parentId].children = @ \ {instanceId}]
                        ELSE s1.regs
            calls == HookCalls(unlinked[instanceId].plugins, 1, "onDispose",
                               instanceId, <<>>, Undefined, Undefined, 0)
            marked == [unlinked EXCEPT ![instanceId].children = {}]
        IN  invalidatePluginCaches(
                [s1 EXCEPT !.regs = marked, !.inMap = @ \ {instanceId},
                           !.calls = @ \o calls])

\* The disposal that marks the parent of the instance disposed as well.
disposeInstanceAndParent(instanceId, st) ==
    IF instanceId \notin st.inMap \/ st.regs[instanceId].isDisposed THEN st
    ELSE
        LET s1 == DisposeChildren(Ascending(st.regs[instanceId].children), st)
            parentId == s1.regs[instanceId].parentId
            unlinked == IF parentId # NoId /\ parentId \in s1.inMap
                        THEN [s1.regs EXCEPT ![parentId].children = @ \ {instanceId},
                                             ![parentId].isDisposed = TRUE]
                        ELSE s1.regs
            calls == HookCalls(unlinked[instanceId].plugins, 1, "onDispose",
                               instanceId, <<>>, Undefined, Undefined, 0)
            marked == [unlinked EXCEPT ![instanceId].isDisposed = TRUE,
                                       ![instanceId].children = {}]
        IN  invalidatePluginCaches(
                [s1 EXCEPT !.regs = marked, !.inMap = @ \ {instanceId},
                           !.calls = @ \o calls])

\* The disposal that leaves the children of the instance alone.
disposeInstanceOnly(instanceId, st) ==
    IF instanceId \notin st.inMap \/ st.regs[instanceId].isDisposed THEN st
    ELSE
        LET calls == HookCalls(st.regs[instanceId].plugins, 1, "onDispose",
                               instanceId, <<>>, Undefined, Undefined, 0)
            marked == [st.regs EXCEPT ![instanceId].isDisposed = TRUE,
                                      ![instanceId].children = {}]
        IN  invalidatePluginCaches(
                [st EXCEPT !.regs = marked, !.inMap = @ \ {instanceId},
                           !.calls = @ \o calls])

\* The disposal that leaves the generation and the cached chains alone.
disposeInstanceKeepingCaches(instanceId, st) ==
    IF instanceId \notin st.inMap \/ st.regs[instanceId].isDisposed THEN st
    ELSE
        LET s1 == DisposeChildren(Ascending(st.regs[instanceId].children), st)
            parentId == s1.regs[instanceId].parentId
            unlinked == IF parentId # NoId /\ parentId \in s1.inMap
                        THEN [s1.regs EXCEPT ![parentId].children = @ \ {instanceId}]
                        ELSE s1.regs
            calls == HookCalls(unlinked[instanceId].plugins, 1, "onDispose",
                               instanceId, <<>>, Undefined, Undefined, 0)
            marked == [unlinked EXCEPT ![instanceId].isDisposed = TRUE,
                                       ![instanceId].children = {}]
        IN  [s1 EXCEPT !.regs = marked, !.inMap = @ \ {instanceId},
                       !.calls = @ \o calls]

disposeInstanceRecursively(instanceId, st) ==
    IF instanceId \notin st.inMap \/ st.regs[instanceId].isDisposed THEN st
    ELSE
        LET s1 == DisposeChildren(Ascending(st.regs[instanceId].children), st)
            parentId == s1.regs[instanceId].parentId
            unlinked == IF parentId # NoId /\ parentId \in s1.inMap
                        THEN [s1.regs EXCEPT ![parentId].children = @ \ {instanceId}]
                        ELSE s1.regs
            calls == HookCalls(unlinked[instanceId].plugins, 1, "onDispose",
                               instanceId, <<>>, Undefined, Undefined, 0)
            marked == [unlinked EXCEPT ![instanceId].isDisposed = TRUE,
                                       ![instanceId].children = {}]
        IN  invalidatePluginCaches(
                [s1 EXCEPT !.regs = marked, !.inMap = @ \ {instanceId},
                           !.calls = @ \o calls])

\* disposeInstanceRecursively with hooks that call back.  st has the fields
\* of the state above and `running`, the scopes whose plugin D is inside its
\* onDispose hook.  `registry` stays the object read at the first statement,
\* whatever a nested call does to the Map.
\* for (const childId of registry.children): a Set is iterated in insertion
\* order, an element added during the loop is visited and one deleted before
\* its turn is not; children are inserted in the order of their ids.
NextChild(regs, instanceId, after) ==
    LET later == {c \in regs[instanceId].children : c > after}
    IN  IF later = {} THEN 0 ELSE CHOOSE c \in later : \A d \in later : c <= d

\* createProxyInstance(parentInstanceId) called from a hook
createProxyInstance(parentInstanceId, st) ==
    LET instanceId == Len(st.regs) + 1
        added == Append(st.regs, NewRegistry(parentInstanceId))
    IN  [st EXCEPT !.regs = IF parentInstanceId # NoId /\ parentInstanceId \in st.inMap
                            THEN [added EXCEPT ![parentInstanceId].children =
                                                    @ \cup {instanceId}]
                            ELSE added,
                   !.inMap = @ \cup {instanceId}]

\* The hook of K throws when createInstance does: on a disposed instance.
OnDisposeThrows(plugin, instanceId, st) ==
    \/ HookResult(plugin, "onDispose", <<>>, Undefined, Undefined) = Thrown
    \/ plugin = "K" /\ st.regs[instanceId].isDisposed

RECURSIVE disposeInstanceReentrant(_, _)
RECURSIVE DisposeChildrenLive(_, _, _)
RECURSIVE OnDisposeLive(_, _, _)

\* what the onDispose hook of the plugin does to the state
OnDisposeActs(plugin, instanceId, st) ==
    IF plugin = "D" /\ instanceId \notin st.running
    THEN [disposeInstanceReentrant(instanceId,
                [st EXCEPT !.running = @ \cup {instanceId}])
            EXCEPT !.running = @ \ {instanceId}]
    ELSE IF plugin = "K" /\ ~st.regs[instanceId].isDisposed
    THEN createProxyInstance(instanceId, st)
    ELSE st

DisposeChildrenLive(instanceId, after, st) ==
    LET childId == NextChild(st.regs, instanceId, after)
    IN  IF childId = 0 THEN st
        ELSE DisposeChildrenLive(instanceId, childId,
                                 disposeInstanceReentrant(childId, st))

\* for (const plugin of registry.plugins): the array is read at every step
OnDisposeLive(instanceId, pos, st) ==
    LET plugins == st.regs[instanceId].plugins
    IN  IF pos > Len(plugins) THEN st
        ELSE IF ~HasHook(plugins[pos], "onDispose")
        THEN OnDisposeLive(instanceId, pos + 1, st)
        ELSE LET c == [Call("onDispose", pos, plugins[pos], instanceId, <<>>,
                            Undefined, Undefined, 0)
                        EXCEPT !.ret = IF OnDisposeThrows(plugins[pos], instanceId, st)
                                       THEN Thrown ELSE Undefined]
             IN  OnDisposeLive(instanceId, pos + 1,
                    OnDisposeActs(plugins[pos], instanceId,
                                  [st EXCEPT !.calls = Append(@, c)]))

disposeInstanceReentrant(instanceId, st) ==
    IF instanceId \notin st.inMap \/ st.regs[instanceId].isDisposed THEN st
    ELSE
        LET s1 == DisposeChildrenLive(instanceId, 0, st)
            parentId == s1.regs[instanceId].parentId
            unlinked == IF parentId # NoId /\ parentId \in s1.inMap
                        THEN [s1.regs EXCEPT ![parentId].children = @ \ {instanceId}]
                        ELSE s1.regs
            s2 == OnDisposeLive(instanceId, 1, [s1 EXCEPT !.regs = unlinked])
            marked == [s2.regs EXCEPT ![instanceId].isDisposed = TRUE,
                                     ![instanceId].children = {}]
        IN  invalidatePluginCaches(
                [s2 EXCEPT !.regs = marked, !.inMap = @ \ {instanceId}])

\* instance.dispose() with hooks that call back
DisposeReentrant(scope) ==
    LET st == disposeInstanceReentrant(scope,
                  [regs |-> registries, inMap |-> instanceRegistry,
                   gen |-> pluginCacheGeneration, pc |-> pluginCache,
                   calls |-> <<>>, running |-> {}])
    IN  /\ registries' = st.regs
        /\ instanceRegistry' = st.inMap
        /\ pluginCacheGeneration' = st.gen
        /\ pluginCache' = st.pc
        /\ last' = Op("dispose", scope, 0, "", Undefined, Undefined, Undefined,
                      <<>>, st.calls)
        /\ UNCHANGED <<globalPluginRegistry, globalRawHooksCount,
                       currentInstanceContext, heap, held>>

\* instance.dispose()
Dispose(scope) ==
    LET st == disposeInstanceRecursively(scope,
                  [regs |-> registries, inMap |-> instanceRegistry,
                   gen |-> pluginCacheGeneration, pc |-> pluginCache,
                   calls |-> <<>>])
    IN  /\ registries' = st.regs
        /\ instanceRegistry' = st.inMap
        /\ pluginCacheGeneration' = st.gen
        /\ pluginCache' = st.pc
        /\ last' = Op("dispose", scope, 0, "", Undefined, Undefined, Undefined,
                      <<>>, st.calls)
        /\ UNCHANGED <<globalPluginRegistry, globalRawHooksCount,
                       currentInstanceContext, heap, held>>

\* -------------------------------------------------------- substrate: proxy()
\* The initial states a root is created from: <<k1, ..., kd>> is the plain
\* object {k1: {k2: ... {kd: 0}}}.
Shapes == {<<"a">>, <<"a", "b">>, <<"a", "b", "a">>}

PlainObject(fields, own) ==
    [fields |-> fields, proxied |-> FALSE, meta |-> NoMeta, own |-> own]

\* the keys an object was created with: the operations address these
OwnKeys(n) == {heap[n].own}

\* the d plain objects of a shape, allocated after the objects of hp
RECURSIVE Allocate(_, _, _)
Allocate(hp, ks, i) ==
    IF i > Len(ks) THEN hp
    ELSE Allocate(
            Append(hp, PlainObject([NoFields EXCEPT ![ks[i]] =
                        IF i < Len(ks) THEN Ref(Len(hp) + 2) ELSE 0], ks[i])),
            ks, i + 1)

\* The loop without its return: every hook is called.
UntilFalseNoReturn(calls) == calls

\* The calls of a loop that returns at the first hook that returns false.
RECURSIVE UntilFalse(_)
UntilFalse(calls) ==
    IF Len(calls) = 0 THEN <<>>
    ELSE IF Head(calls).ret = JsFalse THEN <<Head(calls)>>
    ELSE <<Head(calls)>> \o UntilFalse(Tail(calls))

\* The calls of a loop that an exception of a hook leaves.
RECURSIVE UntilThrown(_)
UntilThrown(calls) ==
    IF Len(calls) = 0 THEN <<>>
    ELSE IF Head(calls).ret = Thrown THEN <<Head(calls)>>
    ELSE <<Head(calls)>> \o UntilThrown(Tail(calls))

AnyRet(calls, r) == \E i \in 1..Len(calls) : calls[i].ret = r

\* The decision that the first plugin with a canProxy hook takes alone.
canProxyFirstAnswer(value, ctx, regs) ==
    LET u == getApplicablePluginsUncached(ctx, regs)
        all == HookCalls(u.chain, 1, "canProxy", NoId, <<>>, value, Undefined, 0)
        calls == IF Len(all) = 0 THEN <<>> ELSE <<Head(all)>>
    IN  [ok |-> ~AnyRet(calls, JsFalse), regs |-> u.regs, calls |-> calls]

\* The decision that accepts a value only outside the context of an instance.
canProxyOutsideInstances(value, ctx, regs) ==
    [ok |-> ctx = NoId, regs |-> regs, calls |-> <<>>]

\* the replaced canProxy(value) under the context ctx, for a value the
\* substrate's own canProxy accepts: [ok, regs, calls]
canProxy(value, ctx, regs) ==
    IF Len(globalPluginRegistry) = 0 /\ ctx = NoId
    THEN [ok |-> TRUE, regs |-> regs, calls |-> <<>>]
    ELSE LET u == getApplicablePluginsUncached(ctx, regs)
             calls == UntilFalse(HookCalls(u.chain, 1, "canProxy", NoId, <<>>,
                                           value, Undefined, 0))
         IN  [ok |-> ~AnyRet(calls, JsFalse), regs |-> u.regs, calls |-> calls]

\* the replaced newProxy: with a global plugin registered, the new proxy is
\* tagged as a global root and onInit runs on every global plugin
newProxy(hp, o) ==
    LET made == [hp EXCEPT ![o].proxied = TRUE]
    IN  IF Len(globalPluginRegistry) > 0
        THEN [hp |-> [made EXCEPT ![o].meta = addMetaData(@,
                        [rootProxy |-> o, instanceId |-> GlobalId, path |-> <<>>,
                         isGlobal |-> JsTrue, rawHooksCount |-> globalRawHooksCount])],
              calls |-> HookCalls(globalPluginRegistry, 1, "onInit", NoId, <<>>,
                                  Undefined, Undefined, 0)]
        ELSE [hp |-> made, calls |-> <<>>]

\* valtio's proxy(baseObject) on the plain object o under the context ctx:
\* newProxy, then every own key is assigned through the set trap while the
\* handler is initializing, which proxies a nested object that canProxy accepts.
RECURSIVE valtioProxy(_, _, _)
valtioProxy(o, ctx, st) ==
    LET np == newProxy(st.hp, o)
        s1 == [st EXCEPT !.hp = np.hp, !.calls = @ \o np.calls]
        nested == {k \in Keys : IsRef(np.hp[o].fields[k])}
    IN  IF nested = {} THEN s1
        ELSE LET k == CHOOSE k \in nested : TRUE
                 value == np.hp[o].fields[k]
                 cp == canProxy(value, ctx, s1.regs)
                 s2 == [s1 EXCEPT !.regs = cp.regs, !.calls = @ \o cp.calls]
             IN  IF cp.ok THEN valtioProxy(ObjOf(value), ctx, s2) ELSE s2

\* createProxy(initialState) of an instance handle (scope # NoId) and
\* createGlobalProxy(initialState) (scope = NoId)
CreateProxy(scope, ks) ==
    IF scope # NoId /\ registries[scope].isDisposed
    THEN ThrowDisposed("createProxy", scope, 0)
    ELSE
        /\ LET root == Len(heap) + 1
               made == valtioProxy(root, scope,
                          [hp |-> Allocate(heap, ks, 1), regs |-> registries,
                           calls |-> <<>>])
               meta == IF scope = NoId
                       THEN [rootProxy |-> root, instanceId |-> GlobalId,
                             path |-> <<>>, isGlobal |-> JsTrue,
                             rawHooksCount |-> globalRawHooksCount]
                       ELSE [rootProxy |-> root, instanceId |-> scope,
                             path |-> <<>>, isGlobal |-> JsFalse,
                             rawHooksCount |-> globalRawHooksCount
                                + getInstanceRawHooksCount(scope, made.regs,
                                                           instanceRegistry)]
               g == IF scope = NoId
                    THEN [chain |-> globalPluginRegistry, regs |-> made.regs,
                          pc |-> pluginCache]
                    ELSE getApplicablePlugins(root, "proxy", scope, made.regs,
                                              pluginCache)
           IN  /\ heap' = [made.hp EXCEPT ![root].meta = addMetaData(@, meta)]
               /\ registries' = g.regs
               /\ pluginCache' = g.pc
               /\ held' = held \cup {root}
               /\ last' = Op("createProxy", scope, root, "", Len(ks), Ref(root),
                             Undefined, g.chain,
                             made.calls \o HookCalls(g.chain, 1, "onInit", NoId,
                                                     <<>>, Undefined, Undefined, 0))
        /\ UNCHANGED <<globalPluginRegistry, globalRawHooksCount, instanceRegistry,
                       pluginCacheGeneration, currentInstanceContext>>

\* createProxy(initialState) and createGlobalProxy(initialState) called with
\* the initial state of the proxy of object n once more: the substrate finds
\* the proxy in its cache and returns it, no proxy is made and nothing is
\* assigned; the metadata of a root is then defined on that proxy (the empty
\* path does not pass the test of addMetaData) and onInit runs.
CreateProxyAgain(scope, n) ==
    IF scope # NoId /\ registries[scope].isDisposed
    THEN ThrowDisposed("createProxy", scope, 0)
    ELSE
        /\ n \in held /\ heap[n].proxied
        /\ LET meta == IF scope = NoId
                       THEN [rootProxy |-> n, instanceId |-> GlobalId,
                             path |-> <<>>, isGlobal |-> JsTrue,
                             rawHooksCount |-> globalRawHooksCount]
                       ELSE [rootProxy |-> n, instanceId |-> scope,
                             path |-> <<>>, isGlobal |-> JsFalse,
                             rawHooksCount |-> globalRawHooksCount
                                + getInstanceRawHooksCount(scope, registries,
                                                           instanceRegistry)]
               g == IF scope = NoId
                    THEN [chain |-> globalPluginRegistry, regs |-> registries,
                          pc |-> pluginCache]
                    ELSE getApplicablePlugins(n, "proxy", scope, registries,
                                              pluginCache)
           IN  /\ heap' = [heap EXCEPT ![n].meta = addMetaData(@, meta)]
               /\ registries' = g.regs
               /\ pluginCache' = g.pc
               /\ last' = Op("createProxy", scope, n, "", 0, Ref(n), Undefined,
                             g.chain,
                             HookCalls(g.chain, 1, "onInit", NoId, <<>>,
                                       Undefined, Undefined, 0))
        /\ UNCHANGED <<globalPluginRegistry, globalRawHooksCount, instanceRegistry,
                       pluginCacheGeneration, currentInstanceContext, held>>

\* ------------------------------------------------------------------ traps
\* The loop taking every return that is not an exception as the new value.
RECURSIVE TransformCallsAnyReturn(_, _, _, _, _, _)
TransformCallsAnyReturn(chain, pos, h, path, value, root) ==
    IF pos > Len(chain) THEN [value |-> value, calls |-> <<>>]
    ELSE IF ~HasHook(chain[pos], h)
    THEN TransformCallsAnyReturn(chain, pos + 1, h, path, value, root)
    ELSE LET c == Call(h, pos, chain[pos], NoId, path, value, Undefined, root)
             next == IF c.ret # Thrown THEN c.ret ELSE value
             rest == TransformCallsAnyReturn(chain, pos + 1, h, path, next, root)
         IN  [value |-> rest.value, calls |-> <<c>> \o rest.calls]

\* The loop handing every hook the value the operation started with.
RECURSIVE TransformCallsUnchained(_, _, _, _, _, _)
TransformCallsUnchained(chain, pos, h, path, value, root) ==
    IF pos > Len(chain) THEN [value |-> value, calls |-> <<>>]
    ELSE IF ~HasHook(chain[pos], h)
    THEN TransformCallsUnchained(chain, pos + 1, h, path, value, root)
    ELSE LET c == Call(h, pos, chain[pos], NoId, path, value, Undefined, root)
             rest == TransformCallsUnchained(chain, pos + 1, h, path, value, root)
         IN  [value |-> IF \E i \in 1..Len(rest.calls) :
                              rest.calls[i].ret \notin {Undefined, Thrown}
                        THEN rest.value
                        ELSE IF c.ret \notin {Undefined, Thrown} THEN c.ret ELSE value,
              calls |-> <<c>> \o rest.calls]

\* A transform loop: every plugin that has hook h is called with the running
\* value; a result other than undefined replaces it, an exception is caught.
RECURSIVE TransformCalls(_, _, _, _, _, _)
TransformCalls(chain, pos, h, path, value, root) ==
    IF pos > Len(chain) THEN [value |-> value, calls |-> <<>>]
    ELSE IF ~HasHook(chain[pos], h)
    THEN TransformCalls(chain, pos + 1, h, path, value, root)
    ELSE LET c == Call(h, pos, chain[pos], NoId, path, value, Undefined, root)
             next == IF c.ret # Undefined /\ c.ret # Thrown THEN c.ret ELSE value
             rest == TransformCalls(chain, pos + 1, h, path, next, root)
         IN  [value |-> rest.value, calls |-> <<c>> \o rest.calls]

NoPlugins == Len(globalPluginRegistry) = 0 /\ instanceRegistry = {}

Tagged(m) == m.rootProxy # 0 /\ m.instanceId # NoId

\* The get trap that runs the onGet hooks after the transformGet hooks, on
\* the value they produced.
ReadObservingResult(n, prop) ==
    LET m == heap[n].meta
        raw == heap[n].fields[prop]
        shouldCheckRawHooks ==
            globalRawHooksCount > 0
            \/ (m.rawHooksCount # Undefined /\ m.rawHooksCount > 0)
        g == IF shouldCheckRawHooks \/ Tagged(m)
             THEN getApplicablePlugins(n, "proxy", m.instanceId, registries, pluginCache)
             ELSE [chain |-> <<>>, regs |-> registries, pc |-> pluginCache]
        rawCalls == IF shouldCheckRawHooks
                    THEN UntilThrown(HookCalls(g.chain, 1, "onGetRaw", NoId, <<prop>>,
                                               raw, Undefined, n))
                    ELSE <<>>
        propagate == /\ isObject(raw) /\ ObjOf(raw) # n /\ m.rootProxy # 0
                     /\ ~hasRootProxy(heap, ObjOf(raw))
        fullPath == m.path \o <<prop>>
        hasHighLevelHooks ==
            \E i \in 1..Len(g.chain) :
                HasHook(g.chain[i], "onGet") \/ HasHook(g.chain[i], "transformGet")
        tg == TransformCalls(g.chain, 1, "transformGet", fullPath, raw, m.rootProxy)
        onGet == HookCalls(g.chain, 1, "onGet", NoId, fullPath, tg.value, Undefined,
                           m.rootProxy)
    IN  /\ n \in held /\ heap[n].proxied
        /\ IF NoPlugins
           THEN /\ last' = Op("read", NoId, n, prop, Undefined, raw, raw, <<>>, <<>>)
                /\ held' = IF isObject(raw) THEN held \cup {ObjOf(raw)} ELSE held
                /\ UNCHANGED <<registries, pluginCache, heap>>
           ELSE IF AnyRet(rawCalls, Thrown)
           THEN /\ last' = Op("read", NoId, n, prop, Undefined, Thrown, raw,
                              g.chain, rawCalls)
                /\ registries' = g.regs
                /\ pluginCache' = g.pc
                /\ UNCHANGED <<heap, held>>
           ELSE /\ heap' = IF propagate
                           THEN [heap EXCEPT ![ObjOf(raw)].meta = addMetaData(@,
                                    [rootProxy |-> m.rootProxy,
                                     instanceId |-> m.instanceId,
                                     path |-> fullPath, isGlobal |-> m.isGlobal,
                                     rawHooksCount |-> m.rawHooksCount])]
                           ELSE heap
                /\ registries' = g.regs
                /\ pluginCache' = g.pc
                /\ LET ret == IF Tagged(m) /\ hasHighLevelHooks THEN tg.value ELSE raw
                       calls == IF Tagged(m) /\ hasHighLevelHooks
                                THEN rawCalls \o tg.calls \o onGet ELSE rawCalls
                   IN  /\ last' = Op("read", NoId, n, prop, Undefined, ret, raw,
                                     g.chain, calls)
                       /\ held' = IF isObject(ret) THEN held \cup {ObjOf(ret)} ELSE held
        /\ UNCHANGED <<globalPluginRegistry, globalRawHooksCount, instanceRegistry,
                       pluginCacheGeneration, currentInstanceContext>>

\* handler.get(target, prop, receiver) on the proxy of object n
Read(n, prop) ==
    LET m == heap[n].meta
        raw == heap[n].fields[prop]
        shouldCheckRawHooks ==
            globalRawHooksCount > 0
            \/ (m.rawHooksCount # Undefined /\ m.rawHooksCount > 0)
        g == IF shouldCheckRawHooks \/ Tagged(m)
             THEN getApplicablePlugins(n, "proxy", m.instanceId, registries, pluginCache)
             ELSE [chain |-> <<>>, regs |-> registries, pc |-> pluginCache]
        rawCalls == IF shouldCheckRawHooks
                    THEN UntilThrown(HookCalls(g.chain, 1, "onGetRaw", NoId, <<prop>>,
                                               raw, Undefined, n))
                    ELSE <<>>
        propagate == /\ isObject(raw) /\ ObjOf(raw) # n /\ m.rootProxy # 0
                     /\ ~hasRootProxy(heap, ObjOf(raw))
        fullPath == m.path \o <<prop>>
        hasHighLevelHooks ==
            \E i \in 1..Len(g.chain) :
                HasHook(g.chain[i], "onGet") \/ HasHook(g.chain[i], "transformGet")
        onGet == HookCalls(g.chain, 1, "onGet", NoId, fullPath, raw, Undefined,
                           m.rootProxy)
        tg == TransformCalls(g.chain, 1, "transformGet", fullPath, raw, m.rootProxy)
    IN  /\ n \in held /\ heap[n].proxied
        /\ IF NoPlugins
           THEN /\ last' = Op("read", NoId, n, prop, Undefined, raw, raw, <<>>, <<>>)
                /\ held' = IF isObject(raw) THEN held \cup {ObjOf(raw)} ELSE held
                /\ UNCHANGED <<registries, pluginCache, heap>>
           ELSE IF AnyRet(rawCalls, Thrown)
           THEN /\ last' = Op("read", NoId, n, prop, Undefined, Thrown, raw,
                              g.chain, rawCalls)
                /\ registries' = g.regs
                /\ pluginCache' = g.pc
                /\ UNCHANGED <<heap, held>>
           ELSE /\ heap' = IF propagate
                           THEN [heap EXCEPT ![ObjOf(raw)].meta = addMetaData(@,
                                    [rootProxy |-> m.rootProxy,
                                     instanceId |-> m.instanceId,
                                     path |-> fullPath, isGlobal |-> m.isGlobal,
                                     rawHooksCount |-> m.rawHooksCount])]
                           ELSE heap
                /\ registries' = g.regs
                /\ pluginCache' = g.pc
                /\ LET ret == IF Tagged(m) /\ hasHighLevelHooks THEN tg.value ELSE raw
                       calls == IF Tagged(m) /\ hasHighLevelHooks
                                THEN rawCalls \o onGet \o tg.calls ELSE rawCalls
                   IN  /\ last' = Op("read", NoId, n, prop, Undefined, ret, raw,
                                     g.chain, calls)
                       /\ held' = IF isObject(ret) THEN held \cup {ObjOf(ret)} ELSE held
        /\ UNCHANGED <<globalPluginRegistry, globalRawHooksCount, instanceRegistry,
                       pluginCacheGeneration, currentInstanceContext>>

\* The plain object a write assigns: {k: 0}, k the key other than prop.  It
\* is allocated after the objects of the heap.
OtherKey(prop) == IF prop = "a" THEN "b" ELSE "a"

WriteValues(prop) == Prims \cup {Ref(Len(heap) + 1)}

WithValue(hp, prop, value) ==
    IF IsRef(value) /\ ObjOf(value) > Len(hp)
    THEN Allocate(hp, <<OtherKey(prop)>>, 1) ELSE hp

\* the substrate's own set and deleteProperty on object n.  The set runs under
\* the context ctx: an object value that canProxy accepts is made a proxy
\* before it is stored.  st = [hp, regs, calls].
originalSet(n, prop, value, ctx, st) ==
    LET cp == canProxy(value, ctx, st.regs)
        s1 == [st EXCEPT !.regs = cp.regs, !.calls = @ \o cp.calls]
        s2 == IF IsRef(value) /\ ~st.hp[ObjOf(value)].proxied
              THEN (IF cp.ok THEN valtioProxy(ObjOf(value), ctx, s1) ELSE s1)
              ELSE st
    IN  [s2 EXCEPT !.hp[n].fields[prop] = value]

originalDeleteProperty(hp, n, prop) == [hp EXCEPT ![n].fields[prop] = Undefined]

\* The set trap that asks the beforeChange hooks about the value as given,
\* before the transformSet hooks run.
WriteVetoFirst(n, prop, value) ==
    LET m == heap[n].meta
        prevValue == heap[n].fields[prop]
        fullPath == m.path \o <<prop>>
        g == getApplicablePlugins(n, "proxy", m.instanceId, registries, pluginCache)
        ts == TransformCalls(g.chain, 1, "transformSet", fullPath, value, m.rootProxy)
        before == UntilFalse(HookCalls(g.chain, 1, "beforeChange", NoId, fullPath,
                                       value, prevValue, m.rootProxy))
        after == HookCalls(g.chain, 1, "afterChange", NoId, fullPath, ts.value,
                           Undefined, m.rootProxy)
        given == WithValue(heap, prop, value)
        \* the fast paths leave currentInstanceContext as it is
        fast == originalSet(n, prop, value, currentInstanceContext,
                            [hp |-> given, regs |-> registries, calls |-> <<>>])
        ctx == IF m.isGlobal = JsTrue THEN NoId ELSE m.instanceId
        set == originalSet(n, prop, ts.value, ctx,
                           [hp |-> given, regs |-> g.regs, calls |-> <<>>])
    IN  /\ n \in held /\ heap[n].proxied
        /\ IF NoPlugins \/ ~Tagged(m)
           THEN /\ heap' = fast.hp
                /\ registries' = fast.regs
                /\ last' = Op("write", NoId, n, prop, value, JsTrue, prevValue,
                              <<>>, fast.calls)
                /\ UNCHANGED pluginCache
           ELSE /\ pluginCache' = g.pc
                /\ IF AnyRet(before, JsFalse)
                   THEN /\ heap' = heap
                        /\ registries' = g.regs
                        /\ last' = Op("write", NoId, n, prop, value, JsTrue,
                                      prevValue, g.chain, before)
                   ELSE /\ heap' = set.hp
                        /\ registries' = set.regs
                        /\ last' = Op("write", NoId, n, prop, value, JsTrue,
                                      prevValue, g.chain,
                                      before \o ts.calls \o set.calls \o after)
        /\ UNCHANGED <<globalPluginRegistry, globalRawHooksCount, instanceRegistry,
                       pluginCacheGeneration, currentInstanceContext, held>>

\* The set trap that passes through only when no plugin is registered
\* anywhere: an untagged node runs the phases over the global plugins.
WriteHookingUntagged(n, prop, value) ==
    LET m == heap[n].meta
        prevValue == heap[n].fields[prop]
        fullPath == m.path \o <<prop>>
        g == getApplicablePlugins(n, "proxy", m.instanceId, registries, pluginCache)
        ts == TransformCalls(g.chain, 1, "transformSet", fullPath, value, m.rootProxy)
        before == UntilFalse(HookCalls(g.chain, 1, "beforeChange", NoId, fullPath,
                                       ts.value, prevValue, m.rootProxy))
        after == HookCalls(g.chain, 1, "afterChange", NoId, fullPath, ts.value,
                           Undefined, m.rootProxy)
        given == WithValue(heap, prop, value)
        fast == originalSet(n, prop, value, currentInstanceContext,
                            [hp |-> given, regs |-> registries, calls |-> <<>>])
        ctx == IF m.isGlobal = JsTrue THEN NoId ELSE m.instanceId
        set == originalSet(n, prop, ts.value, ctx,
                           [hp |-> given, regs |-> g.regs, calls |-> <<>>])
    IN  /\ n \in held /\ heap[n].proxied
        /\ IF NoPlugins
           THEN /\ heap' = fast.hp
                /\ registries' = fast.regs
                /\ last' = Op("write", NoId, n, prop, value, JsTrue, prevValue,
                              <<>>, fast.calls)
                /\ UNCHANGED pluginCache
           ELSE /\ pluginCache' = g.pc
                /\ IF AnyRet(before, JsFalse)
                   THEN /\ heap' = heap
                        /\ registries' = g.regs
                        /\ last' = Op("write", NoId, n, prop, value, JsTrue,
                                      prevValue, g.chain, ts.calls \o before)
                   ELSE /\ heap' = set.hp
                        /\ registries' = set.regs
                        /\ last' = Op("write", NoId, n, prop, value, JsTrue,
                                      prevValue, g.chain,
                                      ts.calls \o before \o set.calls \o after)
        /\ UNCHANGED <<globalPluginRegistry, globalRawHooksCount, instanceRegistry,
                       pluginCacheGeneration, currentInstanceContext, held>>

\* handler.set(target, prop, value, receiver) on the proxy of object n
Write(n, prop, value) ==
    LET m == heap[n].meta
        prevValue == heap[n].fields[prop]
        fullPath == m.path \o <<prop>>
        g == getApplicablePlugins(n, "proxy", m.instanceId, registries, pluginCache)
        ts == TransformCalls(g.chain, 1, "transformSet", fullPath, value, m.rootProxy)
        before == UntilFalse(HookCalls(g.chain, 1, "beforeChange", NoId, fullPath,
                                       ts.value, prevValue, m.rootProxy))
        after == HookCalls(g.chain, 1, "afterChange", NoId, fullPath, ts.value,
                           Undefined, m.rootProxy)
        given == WithValue(heap, prop, value)
        \* the fast paths leave currentInstanceContext as it is
        fast == originalSet(n, prop, value, currentInstanceContext,
                            [hp |-> given, regs |-> registries, calls |-> <<>>])
        ctx == IF m.isGlobal = JsTrue THEN NoId ELSE m.instanceId
        set == originalSet(n, prop, ts.value, ctx,
                           [hp |-> given, regs |-> g.regs, calls |-> <<>>])
    IN  /\ n \in held /\ heap[n].proxied
        /\ IF NoPlugins \/ ~Tagged(m)
           THEN /\ heap' = fast.hp
                /\ registries' = fast.regs
                /\ last' = Op("write", NoId, n, prop, value, JsTrue, prevValue,
                              <<>>, fast.calls)
                /\ UNCHANGED pluginCache
           ELSE /\ pluginCache' = g.pc
                /\ IF AnyRet(before, JsFalse)
                   THEN /\ heap' = heap
                        /\ registries' = g.regs
                        /\ last' = Op("write", NoId, n, prop, value, JsTrue,
                                      prevValue, g.chain, ts.calls \o before)
                   ELSE /\ heap' = set.hp
                        /\ registries' = set.regs
                        /\ last' = Op("write", NoId, n, prop, value, JsTrue,
                                      prevValue, g.chain,
                                      ts.calls \o before \o set.calls \o after)
        /\ UNCHANGED <<globalPluginRegistry, globalRawHooksCount, instanceRegistry,
                       pluginCacheGeneration, currentInstanceContext, held>>

\* handler.deleteProperty(target, prop) on the proxy of object n
Delete(n, prop) ==
    LET m == heap[n].meta
        prevValue == heap[n].fields[prop]
        fullPath == m.path \o <<prop>>
        g == getApplicablePlugins(n, "target", m.instanceId, registries, pluginCache)
        before == UntilFalse(HookCalls(g.chain, 1, "beforeChange", NoId, fullPath,
                                       Undefined, prevValue, m.rootProxy))
        after == HookCalls(g.chain, 1, "afterChange", NoId, fullPath, Undefined,
                           Undefined, m.rootProxy)
    IN  /\ n \in held /\ heap[n].proxied
        /\ IF NoPlugins \/ ~hasRootProxy(heap, n)
           THEN /\ heap' = originalDeleteProperty(heap, n, prop)
                /\ last' = Op("delete", NoId, n, prop, Undefined, JsTrue, prevValue,
                              <<>>, <<>>)
                /\ UNCHANGED <<registries, pluginCache>>
           ELSE /\ registries' = g.regs
                /\ pluginCache' = g.pc
                /\ IF ~Tagged(m)
                   THEN /\ heap' = originalDeleteProperty(heap, n, prop)
                        /\ last' = Op("delete", NoId, n, prop, Undefined, JsTrue,
                                      prevValue, <<>>, <<>>)
                   ELSE IF AnyRet(before, JsFalse)
                   THEN /\ heap' = heap
                        /\ last' = Op("delete", NoId, n, prop, Undefined, JsFalse,
                                      prevValue, g.chain, before)
                   ELSE /\ heap' = originalDeleteProperty(heap, n, prop)
                        /\ last' = Op("delete", NoId, n, prop, Undefined, JsTrue,
                                      prevValue, g.chain, before \o after)
        /\ UNCHANGED <<globalPluginRegistry, globalRawHooksCount, instanceRegistry,
                       pluginCacheGeneration, currentInstanceContext, held>>

\* ------------------------------------------- traps with hooks that call back
\* The state of the module and of the substrate while a trap runs: st has a
\* field for each of them, the log `calls`, and `running`, the plugins W that
\* are inside a hook.  In the log of these traps the field inst of a call is
\* the value of currentInstanceContext when the hook was entered.
Entering ==
    [globals |-> globalPluginRegistry, raw |-> globalRawHooksCount,
     regs |-> registries, inMap |-> instanceRegistry,
     gen |-> pluginCacheGeneration, pc |-> pluginCache, hp |-> heap,
     ctx |-> currentInstanceContext, calls |-> <<>>, running |-> {}]

\* getApplicablePlugins(receiver) on st.  The result is either the array
\* globalPluginRegistry itself (alias), which use, removePlugin and
\* clearPlugins change in place, or an array nothing changes afterwards: the
\* empty one, or the chain built for an instance.
getApplicablePluginsLive(o, side, st) ==
    LET instanceId == st.hp[o].meta.instanceId
        cached == st.pc[<<o, side>>]
        fixed(plugins) == [alias |-> FALSE, plugins |-> plugins, st |-> st]
        same == [alias |-> TRUE, plugins |-> <<>>, st |-> st]
    IN  IF Len(st.globals) = 0 /\ st.inMap = {} THEN fixed(<<>>)
        ELSE IF instanceId = NoId THEN same
        ELSE IF cached.set /\ cached.gen = st.gen /\ cached.inst = instanceId
             THEN fixed(cached.plugins)
        ELSE IF instanceId \in st.inMap THEN
            LET built == IF st.regs[instanceId].cachedPluginChain.set
                         THEN st.regs[instanceId].cachedPluginChain.plugins
                         ELSE buildInstancePluginChain(instanceId, st.globals,
                                                       st.regs, st.inMap)
                result == [set |-> TRUE, plugins |-> built, gen |-> st.gen,
                           inst |-> instanceId]
            IN  [alias |-> FALSE, plugins |-> built,
                 st |-> [st EXCEPT !.regs[instanceId].cachedPluginChain = result,
                                   !.pc[<<o, side>>] = result]]
        ELSE same

\* The array the loops of a trap iterate, as it is now.
ChainNow(x, st) == IF x.alias THEN st.globals ELSE x.plugins

\* proxy.use(pluginsToAdd) and instance.use(pluginsToAdd) called from a hook
useGlobal(pluginsToAdd, st) ==
    LET r == RegisterAll(pluginsToAdd, st.globals, st.raw, NoId, <<>>)
    IN  invalidatePluginCaches(
            [st EXCEPT !.globals = r.plugins, !.raw = r.rawHooksCount,
                       !.calls = @ \o r.calls])

useInstance(instanceId, pluginsToAdd, st) ==
    LET r == RegisterAll(pluginsToAdd, st.regs[instanceId].plugins,
                         st.regs[instanceId].rawHooksCount, instanceId, <<>>)
    IN  invalidatePluginCaches(
            [st EXCEPT !.regs[instanceId].plugins = r.plugins,
                       !.regs[instanceId].rawHooksCount = r.rawHooksCount,
                       !.calls = @ \o r.calls])

\* proxy.clearPlugins() called from a hook
clearPlugins(st) ==
    invalidatePluginCaches(
        [st EXCEPT !.calls = @ \o HookCalls(st.globals, 1, "onDispose", NoId, <<>>,
                                            Undefined, Undefined, 0),
                   !.raw = 0, !.globals = <<>>])

\* const v = e: the element of the singleton {e}; e is computed once.
The(S) == CHOOSE v \in S : TRUE

RECURSIVE setTrap(_, _, _, _)
RECURSIVE HookActs(_, _, _, _)
RECURSIVE Entered(_, _, _, _, _, _, _)
RECURSIVE TransformSetLive(_, _, _, _)
RECURSIVE BeforeChangeLive(_, _, _, _)
RECURSIVE AfterChangeLive(_, _, _, _)

\* what hook h of the plugin does to the state; x is the operation it was
\* called by
HookActs(plugin, h, x, st) ==
    IF plugin = "U" /\ h = "transformSet" THEN useGlobal(<<"T">>, st)
    ELSE IF plugin = "C" /\ h = "beforeChange" THEN clearPlugins(st)
    ELSE IF plugin = "I" /\ h = "transformSet" THEN useInstance(1, <<"T">>, st)
    ELSE IF plugin = "W" /\ plugin \notin st.running
    THEN [setTrap(1, "a", 1, [st EXCEPT !.running = @ \cup {plugin}])
            EXCEPT !.running = @ \ {plugin}]
    ELSE st

\* One hook call of a trap: the call is logged with the context it finds,
\* then the hook acts.
Entered(h, pos, plugin, x, value, prev, st) ==
    LET c == Call(h, pos, plugin, st.ctx, x.path, value, prev, x.root)
    IN  [ret |-> c.ret,
         st |-> The({HookActs(plugin, h, x, logged) :
                        logged \in {[st EXCEPT !.calls = Append(@, c)]}})]

\* for (const plugin of applicablePlugins) if (plugin.transformSet) ...
TransformSetLive(x, pos, value, st) ==
    LET chain == ChainNow(x, st)
    IN  IF pos > Len(chain) THEN [value |-> value, st |-> st]
        ELSE IF ~HasHook(chain[pos], "transformSet")
        THEN TransformSetLive(x, pos + 1, value, st)
        ELSE The({TransformSetLive(x, pos + 1,
                    IF e.ret # Undefined /\ e.ret # Thrown THEN e.ret ELSE value,
                    e.st) :
                  e \in {Entered("transformSet", pos, chain[pos], x, value,
                                 Undefined, st)}})

\* for (const plugin of applicablePlugins) if (plugin.beforeChange) ...
BeforeChangeLive(x, pos, value, st) ==
    LET chain == ChainNow(x, st)
    IN  IF pos > Len(chain) THEN [veto |-> FALSE, st |-> st]
        ELSE IF ~HasHook(chain[pos], "beforeChange")
        THEN BeforeChangeLive(x, pos + 1, value, st)
        ELSE The({IF e.ret = JsFalse THEN [veto |-> TRUE, st |-> e.st]
                  ELSE BeforeChangeLive(x, pos + 1, value, e.st) :
                  e \in {Entered("beforeChange", pos, chain[pos], x, value,
                                 x.prev, st)}})

\* for (const plugin of applicablePlugins) if (plugin.afterChange) ...
AfterChangeLive(x, pos, value, st) ==
    LET chain == ChainNow(x, st)
    IN  IF pos > Len(chain) THEN st
        ELSE IF ~HasHook(chain[pos], "afterChange")
        THEN AfterChangeLive(x, pos + 1, value, st)
        ELSE The({AfterChangeLive(x, pos + 1, value, e.st) :
                  e \in {Entered("afterChange", pos, chain[pos], x, value,
                                 Undefined, st)}})

\* The operation a trap on object n with key prop starts on st.
Resolved(n, prop, g) ==
    [node |-> n, prop |-> prop, alias |-> g.alias, plugins |-> g.plugins,
     path |-> g.st.hp[n].meta.path \o <<prop>>,
     root |-> g.st.hp[n].meta.rootProxy, prev |-> g.st.hp[n].fields[prop]]

\* The hooks before the delegation of a write of value to key prop of n: the
\* operation, the value and the state they leave, and whether they vetoed.
BeforeDelegation(n, prop, value, st) ==
    The({The({The({[x |-> Resolved(n, prop, g), value |-> ts.value,
                    veto |-> bc.veto, st |-> bc.st] :
                   bc \in {BeforeChangeLive(Resolved(n, prop, g), 1, ts.value, ts.st)}}) :
              ts \in {TransformSetLive(Resolved(n, prop, g), 1, value, g.st)}}) :
         g \in {getApplicablePluginsLive(n, "proxy", st)}})

\* The set trap that leaves the context it has set.
setTrapKeepingContext(n, prop, value, st) ==
    LET m == st.hp[n].meta
    IN  IF (Len(st.globals) = 0 /\ st.inMap = {}) \/ ~Tagged(m)
        THEN [st EXCEPT !.hp[n].fields[prop] = value]
        ELSE The({IF b.veto THEN b.st
                  ELSE The({AfterChangeLive(b.x, 1, b.value, entered) :
                            entered \in {[b.st EXCEPT
                                !.ctx = IF m.isGlobal = JsTrue THEN NoId
                                        ELSE m.instanceId,
                                !.hp[n].fields[prop] = b.value]}}) :
                  b \in {BeforeDelegation(n, prop, value, st)}})

\* handler.set(target, prop, value, receiver) on the proxy of object n, for a
\* primitive value: the substrate's set stores it and returns true.
setTrap(n, prop, value, st) ==
    LET m == st.hp[n].meta
    IN  IF (Len(st.globals) = 0 /\ st.inMap = {}) \/ ~Tagged(m)
        THEN [st EXCEPT !.hp[n].fields[prop] = value]
        ELSE The({IF b.veto THEN b.st
                  ELSE The({[AfterChangeLive(b.x, 1, b.value, entered)
                                EXCEPT !.ctx = b.st.ctx] :
                            entered \in {[b.st EXCEPT
                                !.ctx = IF m.isGlobal = JsTrue THEN NoId
                                        ELSE m.instanceId,
                                !.hp[n].fields[prop] = b.value]}}) :
                  b \in {BeforeDelegation(n, prop, value, st)}})

\* The chain the trap on object n resolves in the current state.
ChainResolved(n, side) ==
    LET g == getApplicablePluginsLive(n, side, Entering)
    IN  IF NoPlugins \/ ~Tagged(heap[n].meta) THEN <<>>
        ELSE IF g.alias THEN globalPluginRegistry ELSE g.plugins

\* handler.set on the proxy of object n with hooks that call back
WriteActing(n, prop, value) ==
    /\ n \in held /\ heap[n].proxied
    /\ \E st \in {setTrap(n, prop, value, Entering)} :
        /\ globalPluginRegistry' = st.globals
        /\ globalRawHooksCount' = st.raw
        /\ registries' = st.regs
        /\ instanceRegistry' = st.inMap
        /\ pluginCacheGeneration' = st.gen
        /\ pluginCache' = st.pc
        /\ heap' = st.hp
        /\ currentInstanceContext' = st.ctx
        /\ last' = Op("write", NoId, n, prop, value, JsTrue, heap[n].fields[prop],
                      ChainResolved(n, "proxy"), st.calls)
    /\ UNCHANGED held

\* handler.deleteProperty(target, prop) on the proxy of object n, on st; the
\* result is the state it leaves and what it returns.
deleteTrap(n, prop, st) ==
    LET m == st.hp[n].meta
        deleted == [st EXCEPT !.hp = originalDeleteProperty(@, n, prop)]
    IN  IF (Len(st.globals) = 0 /\ st.inMap = {}) \/ ~hasRootProxy(st.hp, n)
        THEN [ret |-> JsTrue, st |-> deleted]
        ELSE The({
            IF ~Tagged(m)
            THEN [ret |-> JsTrue,
                  st |-> [g.st EXCEPT !.hp = originalDeleteProperty(@, n, prop)]]
            ELSE The({
                IF bc.veto THEN [ret |-> JsFalse, st |-> bc.st]
                ELSE The({[ret |-> JsTrue,
                           st |-> [AfterChangeLive(Resolved(n, prop, g), 1,
                                                   Undefined, entered)
                                     EXCEPT !.ctx = bc.st.ctx]] :
                          entered \in {[bc.st EXCEPT
                                !.ctx = m.instanceId,
                                !.hp = originalDeleteProperty(@, n, prop)]}}) :
                bc \in {BeforeChangeLive(Resolved(n, prop, g), 1, Undefined, g.st)}}) :
            g \in {getApplicablePluginsLive(n, "target", st)}})

\* handler.deleteProperty on the proxy of object n with hooks that call back
DeleteActing(n, prop) ==
    /\ n \in held /\ heap[n].proxied
    /\ \E d \in {deleteTrap(n, prop, Entering)} :
        /\ globalPluginRegistry' = d.st.globals
        /\ globalRawHooksCount' = d.st.raw
        /\ registries' = d.st.regs
        /\ instanceRegistry' = d.st.inMap
        /\ pluginCacheGeneration' = d.st.gen
        /\ pluginCache' = d.st.pc
        /\ heap' = d.st.hp
        /\ currentInstanceContext' = d.st.ctx
        /\ last' = Op("delete", NoId, n, prop, Undefined, d.ret,
                      heap[n].fields[prop], ChainResolved(n, "target"), d.st.calls)
    /\ UNCHANGED held

\* The metadata symbols, by the names of the fields of the metadata.
TagKeys == {"rootProxy", "instanceId", "path", "isGlobal", "rawHooksCount"}

\* addMetaData defines RAW_HOOKS_COUNT_SYMBOL writable and the other four
\* symbols not writable; all five are configurable.
Writable(tag) == tag = "rawHooksCount"

\* handler.set with a metadata symbol as the key, on the proxy of object n
\* that has the symbol: Reflect.set(target, prop, value, receiver) and nothing
\* else.  It assigns a writable symbol and answers false for the others.
WriteTag(n, tag, value) ==
    /\ n \in held /\ heap[n].proxied
    /\ heap[n].meta[tag] # NoMeta[tag]
    /\ heap' = IF Writable(tag) THEN [heap EXCEPT ![n].meta[tag] = value] ELSE heap
    /\ last' = Op("writeTag", NoId, n, tag, value,
                  IF Writable(tag) THEN JsTrue ELSE JsFalse, Undefined, <<>>, <<>>)
    /\ UNCHANGED <<globalPluginRegistry, globalRawHooksCount, registries,
                   instanceRegistry, pluginCacheGeneration, pluginCache,
                   currentInstanceContext, held>>

\* handler.deleteProperty with a metadata symbol as the key:
\* Reflect.deleteProperty(target, prop) removes the configurable symbol.
DeleteTag(n, tag) ==
    /\ n \in held /\ heap[n].proxied
    /\ heap[n].meta[tag] # NoMeta[tag]
    /\ heap' = [heap EXCEPT ![n].meta[tag] = NoMeta[tag]]
    /\ last' = Op("deleteTag", NoId, n, tag, Undefined, JsTrue, Undefined,
                  <<>>, <<>>)
    /\ UNCHANGED <<globalPluginRegistry, globalRawHooksCount, registries,
                   instanceRegistry, pluginCacheGeneration, pluginCache,
                   currentInstanceContext, held>>

\* ------------------------------------------------------ subscribe, snapshot
\* The test that accepts only the roots of the scope of the handle itself.
isFromThisScope(checkId, instanceId) == checkId = instanceId

\* The test that accepts the roots of every scope.
isFromAnyHierarchy(checkId, instanceId) == TRUE

RECURSIVE isFromThisHierarchy(_, _)
isFromThisHierarchy(checkId, instanceId) ==
    IF checkId = instanceId THEN TRUE
    ELSE IF checkId \in instanceRegistry /\ registries[checkId].parentId # NoId
    THEN isFromThisHierarchy(registries[checkId].parentId, instanceId)
    ELSE FALSE

\* The substrate's snapshot of the proxy of object o, as a number: the
\* snapshots of the two fields, of which a proxied object contributes its own
\* snapshot and an object that is not a proxy is kept by reference.
RECURSIVE originalSnapshot(_, _)
SnapshotOfValue(hp, v) ==
    IF ~IsRef(v) THEN v + 2
    ELSE IF hp[ObjOf(v)].proxied THEN 8 + originalSnapshot(hp, ObjOf(v))
    ELSE 4 + ObjOf(v)

originalSnapshot(hp, o) ==
    SnapshotOfValue(hp, hp[o].fields["a"]) + 64 * SnapshotOfValue(hp, hp[o].fields["b"])

\* The unsubscribe function of the substrate's subscription to object o.
originalSubscribe(o) == Ref(o)

\* proxy.subscribe / proxy.snapshot (scope = NoId) and instance.subscribe /
\* instance.snapshot.  The hook is onSubscribe or onSnapshot and is handed
\* arg; result is what the substrate's subscribe or snapshot returned, which
\* the wrapper returns.
Wrapper(name, hook, scope, n, arg, result) ==
    IF scope # NoId /\ registries[scope].isDisposed
    THEN /\ n \in held /\ heap[n].proxied
         /\ ThrowDisposed(name, scope, n)
    ELSE
        LET m == heap[n].meta
            dispatch == \/ scope = NoId
                        \/ /\ m.instanceId # NoId
                           /\ isFromThisHierarchy(m.instanceId, scope)
            g == IF dispatch
                 THEN getApplicablePlugins(n, "proxy", m.instanceId, registries,
                                           pluginCache)
                 ELSE [chain |-> <<>>, regs |-> registries, pc |-> pluginCache]
        IN  /\ n \in held /\ heap[n].proxied
            /\ registries' = g.regs
            /\ pluginCache' = g.pc
            /\ last' = Op(name, scope, n, "", arg, result, Undefined, g.chain,
                          HookCalls(g.chain, 1, hook, NoId, <<>>, arg,
                                    Undefined, n))
            /\ UNCHANGED <<globalPluginRegistry, globalRawHooksCount,
                           instanceRegistry, pluginCacheGeneration,
                           currentInstanceContext, heap, held>>

Subscribe(scope, n) ==
    Wrapper("subscribe", "onSubscribe", scope, n, Ref(n), originalSubscribe(n))

Snapshot(scope, n) ==
    Wrapper("snapshot", "onSnapshot", scope, n, originalSnapshot(heap, n),
            originalSnapshot(heap, n))

\* ------------------------------------------------- plugin lookup on a handle
\* The get handler of an instance handle (scope # NoId) and of the global
\* handle (scope = NoId) for a property that is a plugin id: the first plugin
\* of the chain with that id.  The outcome records the chain and the position
\* found in it (0: no plugin has the id, the handle's own property is read).
Lookup(scope, id) ==
    LET u == IF scope = NoId
             THEN [chain |-> globalPluginRegistry, regs |-> registries]
             ELSE getApplicablePluginsUncached(scope, registries)
    IN  /\ registries' = u.regs
        /\ last' = Op("lookup", scope, 0, id, Undefined, FindIndex(u.chain, id),
                      Undefined, u.chain, <<>>)
        /\ UNCHANGED <<globalPluginRegistry, globalRawHooksCount, instanceRegistry,
                       pluginCacheGeneration, pluginCache, currentInstanceContext,
                       heap, held>>

\* ----------------------------------------------------------- specification
Scopes == {NoId} \cup Instances

Objects == DOMAIN heap

PluginIds == {PluginId(p) : p \in Catalogue}

\* The caller is between two operations.
Idle == last.op = "none"

\* The operation has returned to the caller: its outcome has been observed.
Return ==
    /\ ~Idle
    /\ last' = NoOp
    /\ UNCHANGED <<globalPluginRegistry, globalRawHooksCount, registries,
                   instanceRegistry, pluginCacheGeneration, pluginCache,
                   currentInstanceContext, heap, held>>

\* The operation through the handle of scope throws at its first statement.
Disposed(scope) == scope # NoId /\ registries[scope].isDisposed

\* There is room for that many more instances and objects.
Room(instances, objects) ==
    /\ Len(registries) + instances <= MaxInstances
    /\ Len(heap) + objects <= MaxObjects
    /\ Len(registries) + Len(heap) + instances + objects <= MaxAllocations

\* The generation counter can still be bumped.
Fresh == pluginCacheGeneration < MaxGeneration

\* A plugin with that id is in the global list.
Registered(id) == FindIndex(globalPluginRegistry, id) > 0

\* The objects a write of value allocates.
Allocated(value) == IF IsRef(value) /\ ObjOf(value) > Len(heap) THEN 1 ELSE 0

Next ==
    \/ Idle /\ \E parent \in Scopes :
            (Disposed(parent) \/ Room(1, 0)) /\ CreateInstance(parent)
    \/ Idle /\ \E scope \in Scopes, batch \in UseBatches :
            (Disposed(scope) \/ Fresh) /\ Use(scope, batch)
    \/ Idle /\ \E id \in PluginIds : (~Registered(id) \/ Fresh) /\ RemovePlugin(id)
    \/ Idle /\ Fresh /\ ClearPlugins
    \/ Idle /\ \E scope \in Instances : Dispose(scope)
    \/ Idle /\ \E scope \in Scopes, ks \in Shapes :
            (Disposed(scope) \/ Room(0, Len(ks))) /\ CreateProxy(scope, ks)
    \/ Idle /\ \E n \in Objects : \E prop \in OwnKeys(n) : Read(n, prop)
    \/ Idle /\ \E n \in Objects : \E prop \in OwnKeys(n) :
            \E value \in WriteValues(prop) :
                Room(0, Allocated(value)) /\ Write(n, prop, value)
    \/ Idle /\ \E n \in Objects : \E prop \in OwnKeys(n) : Delete(n, prop)
    \/ Idle /\ \E scope \in Scopes, n \in Objects : Subscribe(scope, n)
    \/ Idle /\ \E scope \in Scopes, n \in Objects : Snapshot(scope, n)
    \/ Return

Spec == Init /\ [][Next]_vars

\* The plugin lists, the scope tree and the lookup of a plugin on a handle.
LookupRoom == Len(registries) + 1 <= LookupInstances

LookupFresh == pluginCacheGeneration < LookupGeneration

\* the arguments of use() in these operations
LookupBatches == {<<"A">>, <<"B">>, <<"T">>, <<"A", "T">>}

NextLookup ==
    \/ Idle /\ \E parent \in Scopes :
            (Disposed(parent) \/ LookupRoom) /\ CreateInstance(parent)
    \/ Idle /\ \E scope \in Scopes, batch \in LookupBatches :
            (Disposed(scope) \/ LookupFresh) /\ Use(scope, batch)
    \/ Idle /\ \E id \in PluginIds :
            (~Registered(id) \/ LookupFresh) /\ RemovePlugin(id)
    \/ Idle /\ LookupFresh /\ ClearPlugins
    \/ Idle /\ \E scope \in Instances : Dispose(scope)
    \/ Idle /\ \E scope \in Scopes, id \in PluginIds : Lookup(scope, id)
    \/ Return

SpecLookup == Init /\ [][NextLookup]_vars

\* The operations on the objects of one tree, nested ones included, under the
\* global scope and one instance scope.
DeepRoom(instances, objects) ==
    /\ Len(registries) + instances <= DeepInstances
    /\ Len(heap) + objects <= DeepObjects
    /\ Len(registries) + Len(heap) + instances + objects <= DeepAllocations

DeepBatches == {<<"T">>, <<"R">>}

NextDeep ==
    \/ Idle /\ DeepRoom(1, 0) /\ CreateInstance(NoId)
    \/ Idle /\ \E scope \in Scopes, batch \in DeepBatches :
            Fresh /\ Use(scope, batch)
    \/ Idle /\ \E scope \in Scopes, ks \in Shapes :
            DeepRoom(0, Len(ks)) /\ CreateProxy(scope, ks)
    \/ Idle /\ \E n \in Objects : \E prop \in OwnKeys(n) : Read(n, prop)
    \/ Idle /\ \E n \in Objects : \E prop \in OwnKeys(n) :
            \E value \in WriteValues(prop) :
                DeepRoom(0, Allocated(value)) /\ Write(n, prop, value)
    \/ Return

SpecDeep == Init /\ [][NextDeep]_vars

\* The operations that tag nodes: root creation, from a fresh initial state
\* and from one that has a proxy already, reads, and writes, among them the
\* write of a proxy the caller holds into another tree.
TagRoom(instances, objects) ==
    /\ Len(registries) + instances <= TagInstances
    /\ Len(heap) + objects <= TagObjects

TagFresh == pluginCacheGeneration < TagGeneration

TagShapes == {<<"a">>, <<"a", "b">>}

\* the proxies a write can embed
HeldProxies == {Ref(o) : o \in {h \in held : heap[h].proxied}}

NextTags ==
    \/ Idle /\ TagRoom(1, 0) /\ CreateInstance(NoId)
    \/ Idle /\ \E scope \in Scopes : TagFresh /\ Use(scope, <<"T">>)
    \/ Idle /\ \E scope \in Scopes, ks \in TagShapes :
            TagRoom(0, Len(ks)) /\ CreateProxy(scope, ks)
    \/ Idle /\ \E scope \in Scopes, n \in Objects : CreateProxyAgain(scope, n)
    \/ Idle /\ \E n \in Objects : \E prop \in OwnKeys(n) : Read(n, prop)
    \/ Idle /\ \E n \in Objects : \E prop \in OwnKeys(n) :
            \E value \in Prims \cup (HeldProxies \ {Ref(n)}) : Write(n, prop, value)
    \/ Return

SpecTags == Init /\ [][NextTags]_vars

\* The writes and deletes that pass through: those of a metadata symbol,
\* those on a node without tags, and the assignments of a root creation.
PassRoom(instances, objects) ==
    /\ Len(registries) + instances <= PassInstances
    /\ Len(heap) + objects <= PassObjects

PassFresh == pluginCacheGeneration < PassGeneration

\* the symbols written and deleted here: one that is not writable, and the
\* writable one
PassTags == {"rootProxy", "rawHooksCount"}

NextPass ==
    \/ Idle /\ PassRoom(1, 0) /\ CreateInstance(NoId)
    \/ Idle /\ \E scope \in Scopes : PassFresh /\ Use(scope, <<"A">>)
    \/ Idle /\ \E scope \in Scopes, ks \in TagShapes :
            PassRoom(0, Len(ks)) /\ CreateProxy(scope, ks)
    \/ Idle /\ \E n \in Objects : \E prop \in OwnKeys(n) : Read(n, prop)
    \/ Idle /\ \E n \in Objects : \E prop \in OwnKeys(n) :
            \E value \in Prims : Write(n, prop, value)
    \/ Idle /\ \E n \in Objects : \E prop \in OwnKeys(n) : Delete(n, prop)
    \/ Idle /\ \E n \in Objects, tag \in PassTags, value \in Prims :
            WriteTag(n, tag, value)
    \/ Idle /\ \E n \in Objects, tag \in PassTags : DeleteTag(n, tag)
    \/ Return

SpecPass == Init /\ [][NextPass]_vars

\* The operations that move a node inside the tree of an instance scope: a
\* proxy read from the tree is assigned under another key and the key it was
\* read from is overwritten or deleted.  Plugins are registered on instance
\* scopes only.
PathRoom(instances, objects) ==
    /\ Len(registries) + instances <= PathInstances
    /\ Len(heap) + objects <= PathObjects

PathFresh == pluginCacheGeneration < PathGeneration

NextPaths ==
    \/ Idle /\ PathRoom(1, 0) /\ CreateInstance(NoId)
    \/ Idle /\ \E scope \in Instances : PathFresh /\ Use(scope, <<"A">>)
    \/ Idle /\ \E scope \in Instances :
            PathRoom(0, 2) /\ CreateProxy(scope, <<"a", "b">>)
    \/ Idle /\ \E n \in Objects, prop \in Keys : Read(n, prop)
    \/ Idle /\ \E n \in Objects, prop \in Keys :
            \E value \in Prims \cup (HeldProxies \ {Ref(n)}) : Write(n, prop, value)
    \/ Idle /\ \E n \in Objects, prop \in Keys : Delete(n, prop)
    \/ Return

SpecPaths == Init /\ [][NextPaths]_vars

\* The scope tree under disposals whose onDispose hooks dispose and create
\* scopes.
NestBatches == {<<"D">>, <<"K">>, <<"T">>, <<"T", "D">>}

NextNest ==
    \/ Idle /\ \E parent \in Scopes :
            Len(registries) < NestInstances /\ CreateInstance(parent)
    \/ Idle /\ \E scope \in Instances, batch \in NestBatches :
            pluginCacheGeneration < NestGeneration /\ Use(scope, batch)
    \/ Idle /\ \E scope \in Instances :
            /\ DisposeReentrant(scope)
            /\ Len(registries') <= NestInstances
    \/ Return

SpecNest == Init /\ [][NextNest]_vars

\* Writes whose hooks register and clear plugins and write to another root.
\* The descriptors are made once the first instance and the first root exist.
ActBatches == {<<"U">>, <<"C">>, <<"I">>, <<"W">>, <<"B">>}

NextActing ==
    \/ Idle /\ Len(registries) < ActInstances /\ CreateInstance(NoId)
    \/ Idle /\ \E scope \in Scopes, batch \in ActBatches :
            /\ pluginCacheGeneration < ActGeneration
            /\ 1 \in Instances /\ 1 \in Objects
            /\ Use(scope, batch)
    \/ Idle /\ \E scope \in Scopes :
            Len(heap) < ActObjects /\ CreateProxy(scope, <<"a">>)
    \/ Idle /\ \E n \in Objects, value \in Prims :
            /\ WriteActing(n, "a", value)
            /\ pluginCacheGeneration' <= ActGeneration
    \/ Idle /\ \E n \in Objects :
            /\ DeleteActing(n, "a")
            /\ pluginCacheGeneration' <= ActGeneration
    \/ Return

SpecActing == Init /\ [][NextActing]_vars

\* The positions in the log of the last operation of the calls of hook h.
CallsOf(h) == {i \in 1..Len(last.calls) : last.calls[i].hook = h}

\* The positions of the chain of the last operation that have hook h.
Having(h) == {p \in 1..Len(last.chain) : HasHook(last.chain[p], h)}

\* The last operation was a write to / a delete on / a read of a tagged node.
OnTagged(op) == last.op = op /\ Tagged(heap[last.node].meta)

Stored == heap[last.node].fields[last.key]

Vetoes == {i \in CallsOf("beforeChange") : last.calls[i].ret = JsFalse}

\* The value a write hands on after its transformSet phase, read off the
\* returns of the hooks: the last defined return, or the written value.
Defined(i) == last.calls[i].ret # Undefined /\ last.calls[i].ret # Thrown

Candidate ==
    LET d == {i \in CallsOf("transformSet") : Defined(i)}
    IN  IF d = {} THEN last.arg
        ELSE last.calls[CHOOSE i \in d : \A j \in d : j <= i].ret

\* C1 (WRITE veto): after a write to a tagged node, if a beforeChange hook
\* returned false then the stored value is the previous one, no afterChange
\* hook ran, the vetoing call is the last hook call of the write (no later
\* beforeChange ran) and the write returned true; if no beforeChange hook
\* returned false then the post-transform value is stored and the afterChange
\* hook of every plugin of the chain that has one ran once, with that value.
C1_WriteVeto ==
    OnTagged("write") =>
        IF Vetoes # {}
        THEN /\ Stored = last.prev
             /\ CallsOf("afterChange") = {}
             /\ Vetoes = {Len(last.calls)}
             /\ last.ret = JsTrue
        ELSE /\ Stored = Candidate
             /\ last.ret = JsTrue
             /\ \A i \in CallsOf("afterChange") : last.calls[i].value = Candidate
             /\ \A p \in Having("afterChange") :
                    Cardinality({i \in CallsOf("afterChange") :
                                    last.calls[i].pos = p}) = 1

\* A vetoed write of a value that differs from the stored one, with a plugin
\* later in the chain that has beforeChange and afterChange hooks.
C1_Witness ==
    /\ OnTagged("write")
    /\ Vetoes # {}
    /\ Candidate # last.prev
    /\ \E i \in Vetoes : \E p \in Having("beforeChange") \cap Having("afterChange") :
            p > last.calls[i].pos

\* The scopes from the topmost instance scope down to S, and their own
\* plugin lists one after the other.
RECURSIVE AncestorsDown(_)
AncestorsDown(S) ==
    IF S = NoId THEN <<>> ELSE Append(AncestorsDown(registries[S].parentId), S)

RECURSIVE OwnPluginsOf(_)
OwnPluginsOf(scopes) ==
    IF Len(scopes) = 0 THEN <<>>
    ELSE registries[Head(scopes)].plugins \o OwnPluginsOf(Tail(scopes))

EffectiveChain(S) == globalPluginRegistry \o OwnPluginsOf(AncestorsDown(S))

Live(S) == S \in Instances /\ ~registries[S].isDisposed

\* The scope a node is tagged with (NoId: the global scope).
ScopeOf(n) ==
    IF heap[n].meta.instanceId = GlobalId THEN NoId ELSE heap[n].meta.instanceId

\* C2 (chain resolution): for every live scope S, the chain that a cache
\* holds for S (the chain cached on S's registry, and every entry of the
\* per-object cache of the current generation), and the chain that the last
\* operation resolved for a node tagged with S or for a root created under S,
\* is the global plugins followed by the own plugins of every scope from the
\* topmost ancestor of S down to S, and nothing else.
C2_ChainResolution ==
    /\ \A S \in Instances :
            (Live(S) /\ registries[S].cachedPluginChain.set) =>
                registries[S].cachedPluginChain.plugins = EffectiveChain(S)
    /\ \A k \in PluginCacheKeys :
            (/\ pluginCache[k].set
             /\ pluginCache[k].gen = pluginCacheGeneration
             /\ Live(pluginCache[k].inst)) =>
                pluginCache[k].plugins = EffectiveChain(pluginCache[k].inst)
    /\ (/\ last.op \in {"read", "write", "delete", "createProxy"}
        /\ last.ret # Thrown
        /\ Tagged(heap[last.node].meta)
        /\ (ScopeOf(last.node) = NoId \/ Live(ScopeOf(last.node)))) =>
            last.chain = EffectiveChain(ScopeOf(last.node))

\* A write to a root of a live child scope while the global scope and the
\* child, or the parent and the child, have plugins of their own.
C2_Witness ==
    /\ OnTagged("write")
    /\ Live(ScopeOf(last.node))
    /\ registries[ScopeOf(last.node)].parentId # NoId
    /\ Len(registries[ScopeOf(last.node)].plugins) > 0
    /\ Len(registries[registries[ScopeOf(last.node)].parentId].plugins) > 0
    /\ last.chain = EffectiveChain(ScopeOf(last.node))
    /\ Len(last.chain) > 1

\* The hooks of the read, write, delete, proxy-ability, subscribe and
\* snapshot dispatch.
DispatchHooks ==
    {"onGetRaw", "onGet", "transformGet", "transformSet", "beforeChange",
     "afterChange", "canProxy", "onSubscribe", "onSnapshot"}

\* The scope whose chain the last operation dispatched over: the scope of the
\* handle for the proxy-ability decisions of a root's creation, the scope the
\* node is tagged with otherwise.
DispatchScope == IF last.op = "createProxy" THEN last.scope ELSE ScopeOf(last.node)

\* Two calls of one dispatch: the same hook, and for the proxy-ability
\* decision the same value (a creation decides once for every nested object).
SameDispatch(i, j) ==
    /\ last.calls[i].hook = last.calls[j].hook
    /\ last.calls[i].hook = "canProxy" => last.calls[i].value = last.calls[j].value

\* C3 (dispatch order): in every read, write, delete, root creation,
\* subscribe and snapshot on a node of a live instance scope or of the global
\* scope, each call of a dispatch hook is made on the plugin at its position
\* of the effective chain of that scope (global plugins first, then every
\* ancestor's from the topmost down to the scope, each list in registration
\* order), and of two calls of the same hook the earlier one is made on the
\* earlier position.  The order is the order within one hook phase: a write
\* runs all transformSet hooks, then all beforeChange hooks, then all
\* afterChange hooks.
C3_DispatchOrder ==
    (/\ last.op \in {"read", "write", "delete", "createProxy", "subscribe", "snapshot"}
     /\ last.node # 0
     /\ (DispatchScope = NoId \/ Live(DispatchScope))) =>
        LET chain == EffectiveChain(DispatchScope)
            calls == last.calls
        IN  /\ \A i \in 1..Len(calls) :
                    calls[i].hook \in DispatchHooks =>
                        /\ calls[i].pos \in 1..Len(chain)
                        /\ calls[i].plugin = chain[calls[i].pos]
            /\ \A i, j \in 1..Len(calls) :
                    (i < j /\ calls[i].hook \in DispatchHooks /\ SameDispatch(i, j)) =>
                        calls[i].pos < calls[j].pos

\* The depth of the scope that owns position p of the effective chain of S:
\* 0 for a global plugin, 1 for the topmost instance scope, and so on.
RECURSIVE OwnerDepth(_, _, _)
OwnerDepth(p, scopes, before) ==
    IF Len(scopes) = 0 THEN 0
    ELSE IF p <= before + Len(registries[Head(scopes)].plugins)
    THEN 1
    ELSE 1 + OwnerDepth(p, Tail(scopes), before + Len(registries[Head(scopes)].plugins))

DepthAt(p, S) ==
    IF p <= Len(globalPluginRegistry) THEN 0
    ELSE OwnerDepth(p, AncestorsDown(S), Len(globalPluginRegistry))

\* An operation on a node of a live instance scope in which the same hook
\* was called on a plugin of an outer scope and then on a plugin of a scope
\* below it.
C3_Witness ==
    /\ last.op \in {"read", "write", "delete", "subscribe", "snapshot"}
    /\ last.node # 0
    /\ Live(DispatchScope)
    /\ \E i, j \in 1..Len(last.calls) :
            /\ i < j
            /\ last.calls[i].hook \in DispatchHooks
            /\ SameDispatch(i, j)
            /\ DepthAt(last.calls[i].pos, DispatchScope)
                    < DepthAt(last.calls[j].pos, DispatchScope)

\* The running value after call i of a transform loop.
Out(i) == IF Defined(i) THEN last.calls[i].ret ELSE last.calls[i].value

\* The calls of transform hook h are one per plugin of the chain that has the
\* hook, in chain order; the first receives the value first, and every other
\* one the running value its predecessor left.
Chained(h, first) ==
    LET T == CallsOf(h)
    IN  /\ {last.calls[i].pos : i \in T} = Having(h)
        /\ \A i, j \in T : i < j => last.calls[i].pos < last.calls[j].pos
        /\ \A i \in T :
                last.calls[i].value =
                    IF \E j \in T : j < i
                    THEN Out(CHOOSE j \in T : j < i /\ \A k \in T : k < i => k <= j)
                    ELSE first

\* The value a transform loop ends with.
Final(h, first) ==
    IF CallsOf(h) = {} THEN first
    ELSE Out(CHOOSE i \in CallsOf(h) : \A j \in CallsOf(h) : j <= i)

\* C4 (transformSet chaining): in every write to a tagged node the
\* transformSet hooks of the chain are called in chain order, the first with
\* the written value and each other one with the running value, which a
\* defined return replaces and an undefined return or an exception leaves;
\* unless a beforeChange hook vetoes the write, the value committed is the
\* running value after the last transformSet hook.
C4_TransformSetChaining ==
    OnTagged("write") =>
        /\ Chained("transformSet", last.arg)
        /\ Vetoes = {} => Stored = Final("transformSet", last.arg)

\* A committed write over a chain of three transformSet hooks of which the
\* first returns a value other than the written one and the second throws.
C4_Witness ==
    /\ OnTagged("write")
    /\ Vetoes = {}
    /\ \E i, j, k \in CallsOf("transformSet") :
            /\ i < j /\ j < k
            /\ Defined(i) /\ last.calls[i].ret # last.arg
            /\ last.calls[j].ret = Thrown
            /\ last.calls[k].value = last.calls[i].ret
    /\ Cardinality(CallsOf("transformSet")) = 3
    /\ Stored = Final("transformSet", last.arg)

\* C5 (transformGet chaining): in every read of a tagged node that returns,
\* the transformGet hooks of the chain are called in chain order, the first
\* with the stored value and each other one with the running value, which a
\* defined return replaces and an undefined return leaves; the read returns
\* the running value after the last hook, which is the return of the last
\* hook that returned a defined value, or the stored value if none did.
C5_TransformGetChaining ==
    (OnTagged("read") /\ last.ret # Thrown) =>
        /\ Chained("transformGet", last.prev)
        /\ last.ret = Final("transformGet", last.prev)
        /\ LET d == {i \in CallsOf("transformGet") : Defined(i)}
           IN  last.ret = IF d = {} THEN last.prev
                          ELSE last.calls[CHOOSE i \in d : \A j \in d : j <= i].ret

\* A read over a chain of transformGet hooks in which one hook returned a
\* value other than the stored one, a later hook received that value, and a
\* hook returned undefined.
C5_Witness ==
    /\ OnTagged("read")
    /\ last.ret # Thrown
    /\ \E i, j \in CallsOf("transformGet") :
            /\ i < j
            /\ Defined(i) /\ last.calls[i].ret # last.prev
            /\ last.calls[j].value = last.calls[i].ret
    /\ \E i \in CallsOf("transformGet") : last.calls[i].ret = Undefined
    /\ last.ret # last.prev

\* C6 (error containment), as the specification states it: in every read,
\* write and delete, a hook that throws does not make the operation throw,
\* and the same hook of every later plugin of the chain is still called
\* (unless a beforeChange hook vetoes the operation).
C6_ErrorContainment ==
    last.op \in {"read", "write", "delete"} =>
        \A i \in 1..Len(last.calls) :
            last.calls[i].ret = Thrown =>
                /\ last.ret # Thrown
                /\ \A p \in Having(last.calls[i].hook) :
                        p > last.calls[i].pos =>
                            \/ \E j \in CallsOf(last.calls[i].hook) :
                                    last.calls[j].pos = p
                            \/ Vetoes # {}

\* What holds of the hooks that are called inside a try block: a throwing
\* transformGet, onGet, transformSet, beforeChange or afterChange hook neither
\* makes the operation throw nor keeps the same hook of a later plugin from
\* being called.
C6_GuardedHooksContained ==
    last.op \in {"read", "write", "delete"} =>
        \A i \in 1..Len(last.calls) :
            (last.calls[i].ret = Thrown /\ last.calls[i].hook # "onGetRaw") =>
                /\ last.ret # Thrown
                /\ \A p \in Having(last.calls[i].hook) :
                        p > last.calls[i].pos =>
                            \/ \E j \in CallsOf(last.calls[i].hook) :
                                    last.calls[j].pos = p
                            \/ Vetoes # {}

\* S and the scopes below it.
Subtree(S) == {D \in Instances : \E i \in 1..Len(AncestorsDown(D)) :
                                    AncestorsDown(D)[i] = S}

\* The calls of the last operation made on position p of the list of scope D.
CallsOn(D, p) ==
    {i \in 1..Len(last.calls) : last.calls[i].inst = D /\ last.calls[i].pos = p}

\* C7 (cascading disposal): a step dispose(S) leaves S and every scope below
\* S disposed and out of the instance registry; for every scope of that
\* subtree that was not yet disposed, the onDispose hook of every plugin of
\* its list is called exactly once, also when an earlier onDispose threw,
\* and no other hook is called; on a scope already disposed the step calls
\* no hook and changes nothing.
C7_CascadingDisposal ==
    [][last'.op = "dispose" =>
        LET S == last'.scope
        IN  /\ \A D \in Subtree(S) :
                    /\ registries'[D].isDisposed
                    /\ D \notin instanceRegistry'
                    /\ \A p \in 1..Len(registries[D].plugins) :
                            Cardinality(CallsOn(D, p)') =
                                IF /\ ~registries[D].isDisposed
                                   /\ HasHook(registries[D].plugins[p], "onDispose")
                                THEN 1 ELSE 0
            /\ \A i \in 1..Len(last'.calls) :
                    /\ last'.calls[i].hook = "onDispose"
                    /\ last'.calls[i].inst \in Subtree(S)
                    /\ last'.calls[i].pos \in
                            1..Len(registries[last'.calls[i].inst].plugins)
                    /\ last'.calls[i].plugin =
                            registries[last'.calls[i].inst].plugins[last'.calls[i].pos]
            /\ registries[S].isDisposed =>
                    /\ last'.calls = <<>>
                    /\ UNCHANGED <<globalPluginRegistry, globalRawHooksCount,
                                   registries, instanceRegistry,
                                   pluginCacheGeneration, pluginCache,
                                   currentInstanceContext, heap, held>>
    ]_vars

\* A dispose of a scope with a child: an onDispose hook of the child threw
\* and an onDispose hook of the scope was called after it.
C7_Witness ==
    /\ last.op = "dispose"
    /\ \E i, j \in 1..Len(last.calls) :
            /\ i < j
            /\ last.calls[i].ret = Thrown
            /\ last.calls[i].inst # last.scope
            /\ last.calls[j].inst = last.scope
    /\ \A D \in Subtree(last.scope) : registries[D].isDisposed

\* dispose has been called on S or on a scope above S: a scope enters the
\* instance registry at its creation and leaves it only by a disposal.
DisposedAbove(S) ==
    \E i \in 1..Len(AncestorsDown(S)) : AncestorsDown(S)[i] \notin instanceRegistry

\* C8 (use after disposal): a step that creates a root, calls use, calls
\* createInstance, subscribes or takes a snapshot through the handle of a
\* scope that has been disposed, itself or with a scope above it, throws,
\* calls no hook and leaves the plugin lists, the scope tree, the caches and
\* the objects as they were.
C8_UseAfterDisposal ==
    [][(/\ last'.op \in {"createProxy", "use", "createInstance", "subscribe",
                         "snapshot"}
        /\ last'.scope # NoId
        /\ DisposedAbove(last'.scope)) =>
            /\ last'.ret = Thrown
            /\ last'.calls = <<>>
            /\ UNCHANGED <<globalPluginRegistry, globalRawHooksCount, registries,
                           instanceRegistry, pluginCacheGeneration, pluginCache,
                           currentInstanceContext, heap, held>>
    ]_vars

\* A snapshot through the handle of a child scope whose parent was disposed
\* has thrown.
C8_Witness ==
    /\ last.op = "snapshot"
    /\ last.scope # NoId
    /\ registries[last.scope].parentId # NoId
    /\ registries[last.scope].parentId \notin instanceRegistry
    /\ last.ret = Thrown

\* The own plugin list of a scope.
OwnList(S) == IF S = NoId THEN globalPluginRegistry ELSE registries[S].plugins

\* The ids of the plugins of a sequence.
IdsOf(plugins) == {PluginId(plugins[i]) : i \in 1..Len(plugins)}

Parents(n) == {q \in Objects : \E k \in Keys : heap[q].fields[k] = Ref(n)}

KeyOf(q, n) == CHOOSE k \in Keys : heap[q].fields[k] = Ref(n)

\* The root of the tree n is in, and the keys that lead from it to n.
RECURSIVE RootOf(_)
RootOf(n) == IF Parents(n) = {} THEN n ELSE RootOf(CHOOSE q \in Parents(n) : TRUE)

RECURSIVE PathTo(_)
PathTo(n) ==
    IF Parents(n) = {} THEN <<>>
    ELSE LET q == CHOOSE q \in Parents(n) : TRUE
         IN  Append(PathTo(q), KeyOf(q, n))

\* r is a root as createProxy tags it.
IsRoot(r) ==
    /\ Parents(r) = {}
    /\ heap[r].meta.rootProxy = r
    /\ heap[r].meta.path = <<>>

\* n is a tagged node below a root of the global scope or of a live scope.
TaggedBelowRoot(n) ==
    /\ Parents(n) # {}
    /\ Tagged(heap[n].meta)
    /\ IsRoot(RootOf(n))
    /\ (ScopeOf(RootOf(n)) = NoId \/ Live(ScopeOf(RootOf(n))))

\* C10 (nested tagging), as the specification states it: every tagged node
\* below a root R created under scope S carries the tags root R, scope S and
\* the path of keys from R to the node; every write and every delete on such
\* a node dispatches over the effective chain of S, and each of its hooks
\* receives the path of keys from R followed by the key, and R as the root.
C10_NestedTagging ==
    /\ \A n \in Objects :
            TaggedBelowRoot(n) =>
                /\ heap[n].meta.rootProxy = RootOf(n)
                /\ ScopeOf(n) = ScopeOf(RootOf(n))
                /\ heap[n].meta.path = PathTo(n)
    /\ (last.op \in {"write", "delete"} /\ TaggedBelowRoot(last.node)) =>
            /\ last.chain = EffectiveChain(ScopeOf(RootOf(last.node)))
            /\ \A i \in 1..Len(last.calls) :
                    /\ last.calls[i].path = Append(PathTo(last.node), last.key)
                    /\ last.calls[i].root = RootOf(last.node)

\* What holds: a nested object that is proxied while no global plugin is
\* registered is left untagged by the creation, and the tags it has at any
\* later time are root R, scope S and the path of keys from R.
C10_TaggedByRead ==
    \A n \in Objects :
        (TaggedBelowRoot(n) /\ heap[n].meta.rootProxy # n) =>
            /\ heap[n].meta.rootProxy = RootOf(n)
            /\ ScopeOf(n) = ScopeOf(RootOf(n))
            /\ heap[n].meta.path = PathTo(n)

\* The plugins of a sequence.
Members(plugins) == {plugins[i] : i \in 1..Len(plugins)}

\* The scope a root was created under, read off the tags createProxy gave it.
CreatedUnder(n) == ScopeOf(RootOf(n))

\* C11 (scope isolation): in every read, write, delete, root creation,
\* subscribe and snapshot on a node of a root created under scope D (the
\* global scope included), every dispatch hook that is called belongs to a
\* plugin of the global list or of the own list of D or of a scope above D,
\* and is called no more often than that plugin occurs in these lists: a
\* plugin registered only on a sibling, a child or an unrelated scope is not
\* invoked.
C11_ScopeIsolation ==
    (/\ last.op \in {"read", "write", "delete", "createProxy", "subscribe", "snapshot"}
     /\ last.node # 0
     /\ IsRoot(RootOf(last.node))) =>
        LET chain == EffectiveChain(CreatedUnder(last.node))
        IN  \A i \in 1..Len(last.calls) :
                last.calls[i].hook \in DispatchHooks =>
                    /\ last.calls[i].plugin \in Members(chain)
                    /\ Cardinality({j \in 1..Len(last.calls) :
                                        /\ SameDispatch(i, j)
                                        /\ last.calls[j].plugin = last.calls[i].plugin})
                            <= Cardinality({p \in 1..Len(chain) :
                                                chain[p] = last.calls[i].plugin})

\* A write to a root of an instance scope has called hooks while another
\* live scope, not above the root's scope, has a plugin with a beforeChange
\* hook that is neither global nor registered on the root's scope or above.
C11_Witness ==
    /\ OnTagged("write")
    /\ IsRoot(last.node)
    /\ CreatedUnder(last.node) # NoId
    /\ CallsOf("beforeChange") # {}
    /\ \E S \in Instances :
            /\ Live(S)
            /\ S \notin Members(AncestorsDown(CreatedUnder(last.node)))
            /\ \E q \in Members(registries[S].plugins) :
                    /\ HasHook(q, "beforeChange")
                    /\ q \notin Members(EffectiveChain(CreatedUnder(last.node)))

\* The positions of the effective chain of scope S that hold a plugin with
\* the given id; the greatest one is in the list of the scope nearest to S.
Holding(S, id) ==
    {p \in 1..Len(EffectiveChain(S)) : PluginId(EffectiveChain(S)[p]) = id}

\* C12 (plugin lookup by id), as the specification states it: property
\* access on the handle of a live scope S by a plugin id returns the
\* descriptor with that id of S's own list if there is one, otherwise the
\* one of the nearest scope above S that has one (the global scope last),
\* and nothing if no scope has one; with the id registered on a parent and
\* on its child, the child's handle returns the child's descriptor.
C12_PluginLookup ==
    (last.op = "lookup" /\ (last.scope = NoId \/ Live(last.scope))) =>
        LET hits == Holding(last.scope, last.key)
        IN  IF hits = {} THEN last.ret = 0
            ELSE /\ last.ret \in 1..Len(last.chain)
                 /\ last.chain[last.ret] =
                        EffectiveChain(last.scope)[CHOOSE p \in hits :
                                                        \A q \in hits : q <= p]

\* A delete of a tagged node follows the protocol of a write, and reports
\* onVeto to the caller when a beforeChange hook returned false.
RemoveProtocol(onVeto) ==
    OnTagged("delete") =>
        /\ \A i \in CallsOf("beforeChange") :
                /\ last.calls[i].path = Append(heap[last.node].meta.path, last.key)
                /\ last.calls[i].value = Undefined
                /\ last.calls[i].prev = last.prev
                /\ last.calls[i].root = heap[last.node].meta.rootProxy
        /\ \A i, j \in CallsOf("beforeChange") :
                i < j => last.calls[i].pos < last.calls[j].pos
        /\ IF Vetoes # {}
           THEN /\ Stored = last.prev
                /\ CallsOf("afterChange") = {}
                /\ Vetoes = {Len(last.calls)}
                /\ last.ret = onVeto
           ELSE /\ Stored = Undefined
                /\ last.ret = JsTrue
                /\ {last.calls[i].pos : i \in CallsOf("beforeChange")}
                        = Having("beforeChange")
                /\ \A i \in CallsOf("afterChange") : last.calls[i].value = Undefined
                /\ \A p \in Having("afterChange") :
                        Cardinality({i \in CallsOf("afterChange") :
                                        last.calls[i].pos = p}) = 1

\* C13 (REMOVE follows the WRITE protocol), as the specification states it:
\* a delete on a tagged node calls the beforeChange hooks in chain order with
\* the node's path followed by the key, undefined, the previous value and the
\* root; if one returns false the property stays, no afterChange hook and no
\* later beforeChange hook runs and the delete reports success (true) to the
\* caller; otherwise the property is removed and every afterChange hook of
\* the chain runs once with the value undefined.
C13_RemoveProtocol == RemoveProtocol(JsTrue)

\* What holds: the same protocol, except that a vetoed delete reports false.
C13_VetoReportsFailure == RemoveProtocol(JsFalse)

\* What the caller can observe of the objects: their fields and whether they
\* are reactive.  The hidden tags are not part of it.
Observable(hp) ==
    [o \in DOMAIN hp |-> [fields |-> hp[o].fields, proxied |-> hp[o].proxied]]

\* No plugin is registered: the global list and the list of every scope that
\* has not been disposed are empty.
NoneRegistered ==
    /\ Len(globalPluginRegistry) = 0
    /\ \A S \in Instances : Live(S) => Len(registries[S].plugins) = 0

\* The substrate's own write without the plugin system: an object value
\* becomes reactive, and the value is stored.
SubstrateWrite(hp, n, prop, value) ==
    LET given == WithValue(hp, prop, value)
        made == IF IsRef(value)
                THEN [given EXCEPT ![ObjOf(value)].proxied = TRUE]
                ELSE given
    IN  [made EXCEPT ![n].fields[prop] = value]

\* C14 (round trip): while no plugin is registered in any scope, whether or
\* not instance scopes exist, a read returns the stored value and changes no
\* object, a write returns true and leaves the objects as the substrate's own
\* write does, a delete returns true and leaves the objects as the
\* substrate's own delete does, and none of them calls a hook.
C14_RoundTrip ==
    [][(last'.op \in {"read", "write", "delete"} /\ NoneRegistered) =>
        LET n == last'.node
            prop == last'.key
        IN  /\ last'.calls = <<>>
            /\ last'.op = "read" =>
                    /\ last'.ret = heap[n].fields[prop]
                    /\ Observable(heap') = Observable(heap)
            /\ last'.op = "write" =>
                    /\ last'.ret = JsTrue
                    /\ Observable(heap') =
                            Observable(SubstrateWrite(heap, n, prop, last'.arg))
            /\ last'.op = "delete" =>
                    /\ last'.ret = JsTrue
                    /\ Observable(heap') =
                            Observable([heap EXCEPT ![n].fields[prop] = Undefined])
    ]_vars

\* An object has been written into a tagged node of an instance scope that
\* is live, after a plugin had been registered and removed again, while no
\* plugin is registered.
C14_Witness ==
    /\ OnTagged("write")
    /\ IsRef(last.arg)
    /\ Live(ScopeOf(last.node))
    /\ pluginCacheGeneration > 0
    /\ NoneRegistered

\* The values whose proxy-ability the last operation decided: the object a
\* write that was not vetoed assigned, and the objects below a new root whose
\* parent became reactive.  The substrate's own default accepts all of them.
Judged ==
    IF last.op = "write"
    THEN (IF IsRef(last.arg) /\ Vetoes = {} THEN {last.arg} ELSE {})
    ELSE IF last.op = "createProxy" /\ last.ret # Thrown
    THEN {Ref(o) : o \in {q \in Objects :
                            /\ q # last.node
                            /\ RootOf(q) = last.node
                            /\ \A r \in Parents(q) : heap[r].proxied}}
    ELSE {}

\* The canProxy calls of the last operation on value v.
AskedAbout(v) == {i \in CallsOf("canProxy") : last.calls[i].value = v}

JudgedBy(D) ==
    LET chain == EffectiveChain(D)
        H == {p \in 1..Len(chain) : HasHook(chain[p], "canProxy")}
    IN  \A v \in Judged :
            LET G == AskedAbout(v)
                F == {i \in G : last.calls[i].ret = JsFalse}
                asked == {last.calls[i].pos : i \in G}
            IN  /\ \A i \in G : /\ last.calls[i].pos \in H
                                 /\ last.calls[i].plugin = chain[last.calls[i].pos]
                /\ F = {} => asked = H
                /\ \A i \in F : asked = {p \in H : p <= last.calls[i].pos}

\* The last operation created a root, or wrote into a node of a tree, of
\* the global scope or of a live instance scope.
InTreeOfLiveScope ==
    /\ last.op \in {"write", "createProxy"}
    /\ last.node # 0
    /\ IsRoot(RootOf(last.node))
    /\ (CreatedUnder(last.node) = NoId \/ Live(CreatedUnder(last.node)))

\* C16 (proxy-ability attribution), as the specification states it: an object
\* created by the creation of a root under scope S, or by a write into any
\* node of a tree of scope S, is judged by the canProxy hooks of the
\* effective chain of S, the plugins of the scopes above S included; an
\* object created for a tree of the global scope is judged by the global
\* plugins only.
C16_Attribution == InTreeOfLiveScope => JudgedBy(CreatedUnder(last.node))

\* What holds: the objects created by the creation of a root, and by a write
\* into a root, are judged by the chain of the root's scope.
C16_RootsAttributed ==
    (InTreeOfLiveScope /\ IsRoot(last.node)) => JudgedBy(CreatedUnder(last.node))

\* The calls of the last operation are the calls of hook h on every plugin
\* of chain that has it, once each, in the order of the chain, with value.
CalledOver(chain, h, value) ==
    LET H == {p \in 1..Len(chain) : HasHook(chain[p], h)}
    IN  /\ \A i \in 1..Len(last.calls) :
                /\ last.calls[i].hook = h
                /\ last.calls[i].value = value
                /\ last.calls[i].pos \in H
                /\ last.calls[i].plugin = chain[last.calls[i].pos]
        /\ \A i, j \in 1..Len(last.calls) :
                i < j => last.calls[i].pos < last.calls[j].pos
        /\ {last.calls[i].pos : i \in 1..Len(last.calls)} = H

\* The last operation went through the handle of a scope that is not
\* disposed, on a root of the global scope or of a live instance scope.
ThroughLiveHandle(op) ==
    /\ last.op = op
    /\ (last.scope = NoId \/ Live(last.scope))
    /\ IsRoot(last.node)
    /\ (CreatedUnder(last.node) = NoId \/ Live(CreatedUnder(last.node)))

\* The handle is the global one, or the root was created under the scope of
\* the handle or under a scope below it.
OwnsRoot(S, n) ==
    \/ S = NoId
    \/ S \in Members(AncestorsDown(CreatedUnder(n)))

\* C17 (subscribe wrapper), as the specification states it: subscribe
\* through the handle of any live scope calls onSubscribe(root, callback) on
\* every plugin of the effective chain of the root, in chain order, also
\* after an onSubscribe hook has thrown, and returns the unsubscribe function
\* of the substrate's subscription.
C17_SubscribeAnyHandle ==
    ThroughLiveHandle("subscribe") =>
        /\ last.ret = originalSubscribe(last.node)
        /\ CalledOver(EffectiveChain(CreatedUnder(last.node)), "onSubscribe",
                      Ref(last.node))

\* C17, amended: the onSubscribe hooks of the effective chain of the root are
\* called when the handle is the global one or the root was created under
\* the scope of the handle or under a scope below it; through any other
\* handle no hook is called.  In both cases the substrate's subscription is
\* made and its unsubscribe function returned.
C17_SubscribeWrapper ==
    ThroughLiveHandle("subscribe") =>
        /\ last.ret = originalSubscribe(last.node)
        /\ CalledOver(IF OwnsRoot(last.scope, last.node)
                      THEN EffectiveChain(CreatedUnder(last.node)) ELSE <<>>,
                      "onSubscribe", Ref(last.node))

\* subscribe through the handle of a parent scope on a root of its child: an
\* onSubscribe hook of a plugin of the parent threw, and the hook of a plugin
\* of the child was called after it.
C17_Witness ==
    /\ ThroughLiveHandle("subscribe")
    /\ last.scope # NoId
    /\ last.scope # CreatedUnder(last.node)
    /\ \E i, j \in 1..Len(last.calls) :
            /\ i < j
            /\ last.calls[i].ret = Thrown
            /\ DepthAt(last.calls[i].pos, CreatedUnder(last.node)) = 1
            /\ DepthAt(last.calls[j].pos, CreatedUnder(last.node)) = 2
    /\ last.ret = originalSubscribe(last.node)

\* C18 (snapshot wrapper): snapshot through the handle of a scope that is not
\* disposed returns the substrate's snapshot of the root; every onSnapshot
\* hook is handed that snapshot; what the hooks return or throw changes
\* neither the value returned nor which hooks are called: every plugin of
\* the chain the wrapper dispatches over that has the hook is called once,
\* in chain order.
C18_SnapshotWrapper ==
    ThroughLiveHandle("snapshot") =>
        /\ last.ret = originalSnapshot(heap, last.node)
        /\ CalledOver(last.chain, "onSnapshot", originalSnapshot(heap, last.node))
        /\ last.chain = IF OwnsRoot(last.scope, last.node)
                        THEN EffectiveChain(CreatedUnder(last.node)) ELSE <<>>

\* A snapshot of a root with a reactive nested object in which an onSnapshot
\* hook threw and a hook of a later plugin was called with the snapshot.
C18_Witness ==
    /\ ThroughLiveHandle("snapshot")
    /\ \E k \in Keys : /\ IsRef(heap[last.node].fields[k])
                        /\ heap[ObjOf(heap[last.node].fields[k])].proxied
    /\ \E i, j \in 1..Len(last.calls) :
            /\ i < j
            /\ last.calls[i].ret = Thrown
            /\ last.calls[j].value = last.ret
    /\ last.ret = originalSnapshot(heap, last.node)

\* The operations that dispatch hooks over a resolved chain.
DispatchOps ==
    {"createProxy", "read", "write", "delete", "subscribe", "snapshot"}

AttachThrows(p) ==
    /\ HasHook(p, "onAttach")
    /\ HookResult(p, "onAttach", <<>>, Undefined, Undefined) = Thrown

\* C20 (onAttach failure): a use() on a scope that is not disposed does not
\* throw when an onAttach hook throws; every plugin of the call, the one
\* whose hook threw and the ones after it, is in the list of the scope
\* afterwards, and the onAttach hook of every plugin of the call that has one
\* has been called, in the order of the call.  The hooks of a plugin whose
\* onAttach threw run on later operations: a subscribe or snapshot that
\* dispatches over the effective chain of a root calls the hook of every such
\* plugin of the chain.
C20_AttachFailure ==
    [][/\ (/\ last'.op = "use"
           /\ ~Disposed(last'.scope)
           /\ \E c \in 1..Len(last'.calls) : last'.calls[c].ret = Thrown) =>
            LET batch == last'.chain
                new == IF last'.scope = NoId THEN globalPluginRegistry'
                       ELSE registries'[last'.scope].plugins
                hooked == {i \in 1..Len(batch) : HasHook(batch[i], "onAttach")}
            IN  /\ last'.ret # Thrown
                /\ \A i \in 1..Len(batch) : \E k \in 1..Len(new) : new[k] = batch[i]
                /\ Len(last'.calls) = Cardinality(hooked)
                /\ \A i \in hooked :
                        LET c == Cardinality({j \in hooked : j <= i})
                        IN  /\ last'.calls[c].hook = "onAttach"
                            /\ last'.calls[c].plugin = batch[i]
                            /\ new[last'.calls[c].pos] = batch[i]
       /\ (/\ last'.op \in {"subscribe", "snapshot"}
           /\ last'.ret # Thrown
           /\ IsRoot(last'.node)
           /\ OwnsRoot(last'.scope, last'.node)
           /\ ~Disposed(CreatedUnder(last'.node))) =>
            LET chain == EffectiveChain(CreatedUnder(last'.node))
                h == IF last'.op = "subscribe" THEN "onSubscribe" ELSE "onSnapshot"
            IN  \A p \in 1..Len(chain) :
                    (AttachThrows(chain[p]) /\ HasHook(chain[p], h)) =>
                        \E c \in 1..Len(last'.calls) :
                            /\ last'.calls[c].pos = p
                            /\ last'.calls[c].plugin = chain[p]
                            /\ last'.calls[c].hook = h
      ]_vars

\* use has just been called with two plugins; the onAttach hook of the first
\* threw, the call returned, and both plugins are in the list, the second
\* after the first.
C20_Witness ==
    /\ last.op = "use"
    /\ last.ret # Thrown
    /\ Len(last.chain) = 2
    /\ Len(last.calls) = 2
    /\ last.calls[1].ret = Thrown
    /\ last.calls[1].plugin = last.chain[1]
    /\ \E i, j \in 1..Len(OwnList(last.scope)) :
            /\ i < j
            /\ OwnList(last.scope)[i] = last.chain[1]
            /\ OwnList(last.scope)[j] = last.chain[2]

\* C21 (disposal of a child): a dispose of a live scope S leaves every scope
\* outside the subtree of S as it was: live if it was live, in the instance
\* registry, with the same parent, the same own plugin list and the same
\* effective chain, as the lists give it and as the code builds it; its
\* children are the same but for S; the global list is unchanged; and no
\* hook of a plugin of a scope outside the subtree is called.
C21_ChildDisposal ==
    [][(last'.op = "dispose" /\ ~Disposed(last'.scope)) =>
        /\ globalPluginRegistry' = globalPluginRegistry
        /\ \A c \in 1..Len(last'.calls) : last'.calls[c].inst \in Subtree(last'.scope)
        /\ \A D \in Instances \ Subtree(last'.scope) :
                /\ registries'[D].isDisposed = registries[D].isDisposed
                /\ (D \in instanceRegistry') = (D \in instanceRegistry)
                /\ registries'[D].parentId = registries[D].parentId
                /\ registries'[D].plugins = registries[D].plugins
                /\ registries'[D].children = registries[D].children \ {last'.scope}
                /\ EffectiveChain(D)' = EffectiveChain(D)
                /\ buildInstancePluginChain(D, globalPluginRegistry', registries',
                                            instanceRegistry')
                     = buildInstancePluginChain(D, globalPluginRegistry, registries,
                                                instanceRegistry)
    ]_vars

\* dispose has just been called on a child scope with a plugin whose
\* onDispose hook was called, while its parent and a sibling, each with a
\* plugin that has an onDispose hook, are live.
C21_Witness ==
    /\ last.op = "dispose"
    /\ Len(last.calls) > 0
    /\ registries[last.scope].isDisposed
    /\ LET P == registries[last.scope].parentId
       IN  /\ P # NoId
           /\ Live(P)
           /\ \E p \in 1..Len(registries[P].plugins) :
                    HasHook(registries[P].plugins[p], "onDispose")
           /\ \E D \in Instances \ {last.scope} :
                    /\ registries[D].parentId = P
                    /\ Live(D)
                    /\ D \in registries[P].children
                    /\ \E p \in 1..Len(registries[D].plugins) :
                            HasHook(registries[D].plugins[p], "onDispose")

\* The last operation was a write to a tagged node that no beforeChange hook
\* vetoed.
Committed == OnTagged("write") /\ Vetoes = {} /\ last.ret # Thrown

\* In the log of the last operation every call of hook h comes before every
\* call of hook k.
Precedes(h, k) == \A i \in CallsOf(h), j \in CallsOf(k) : i < j

\* The plugins of the chain of the last operation that have hook h were
\* called once each, in chain order, and no other plugin was.
OncePerPlugin(h) ==
    /\ {last.calls[i].pos : i \in CallsOf(h)} = Having(h)
    /\ \A i, j \in CallsOf(h) : i < j => last.calls[i].pos < last.calls[j].pos
    /\ \A i \in CallsOf(h) : last.calls[i].plugin = last.chain[last.calls[i].pos]

\* C22 (write phase order): in every committed write to a tagged node the
\* transformSet hooks of the chain all run before the first beforeChange
\* hook; every beforeChange hook of the chain runs, with the value the
\* transformSet phase ended with and the value stored before the write;
\* what the substrate's write does (its canProxy and onInit calls for an
\* object value, the store) comes after the last beforeChange hook and
\* before the first afterChange hook; the afterChange hooks of the chain run
\* once each, in chain order, with the transformed value, which is the value
\* stored.
C22_WritePhaseOrder ==
    Committed =>
        /\ OncePerPlugin("transformSet")
        /\ OncePerPlugin("beforeChange")
        /\ OncePerPlugin("afterChange")
        /\ Precedes("transformSet", "beforeChange")
        /\ Precedes("beforeChange", "afterChange")
        /\ \A h \in {"canProxy", "onInit"} :
                Precedes("beforeChange", h) /\ Precedes(h, "afterChange")
        /\ \A i \in 1..Len(last.calls) :
                last.calls[i].hook \in {"transformSet", "beforeChange", "canProxy",
                                        "onInit", "afterChange"}
        /\ \A i \in CallsOf("beforeChange") :
                /\ last.calls[i].value = Candidate
                /\ last.calls[i].prev = last.prev
        /\ \A i \in CallsOf("afterChange") : last.calls[i].value = Candidate
        /\ Stored = Candidate

\* A committed write of an object whose chain has two plugins with all three
\* hooks: a transformSet hook threw, canProxy was asked about the object, and
\* the afterChange hooks ran.
C22_ObjectWritten ==
    /\ Committed
    /\ IsRef(Stored)
    /\ Cardinality(CallsOf("transformSet")) >= 2
    /\ Cardinality(CallsOf("beforeChange")) >= 2
    /\ Cardinality(CallsOf("afterChange")) >= 2
    /\ CallsOf("canProxy") # {}
    /\ \E i \in CallsOf("transformSet") : last.calls[i].ret = Thrown

DispatchedOver(chain, h) ==
    LET H == {p \in 1..Len(chain) : HasHook(chain[p], h)}
        called == {last.calls[i].pos : i \in CallsOf(h)}
    IN  /\ \A i \in CallsOf(h) :
                /\ last.calls[i].pos \in H
                /\ last.calls[i].plugin = chain[last.calls[i].pos]
        /\ \A i, j \in CallsOf(h) : i < j => last.calls[i].pos < last.calls[j].pos
        /\ IF h = "beforeChange" /\ Vetoes # {}
           THEN \E i \in Vetoes : called = {p \in H : p <= last.calls[i].pos}
           ELSE called = H

\* The hooks an operation dispatches before anything can stop it.
FirstHooks(op) ==
    CASE op = "read" -> {"onGetRaw", "onGet", "transformGet"}
      [] op = "write" -> {"transformSet", "beforeChange"}
      [] op = "delete" -> {"beforeChange"}

\* C24 (late registration): every read, write and delete on a tagged node of
\* the tree of a root of a live scope S (or of the global scope) dispatches
\* its hooks over the effective chain as the plugin lists of the global
\* scope, of the ancestors of S and of S give it at that moment, whatever the
\* lists were when the root was created or the node tagged.
C24_LateRegistration ==
    (/\ last.op \in {"read", "write", "delete"}
     /\ last.ret # Thrown
     /\ Tagged(heap[last.node].meta)
     /\ (CreatedUnder(last.node) = NoId \/ Live(CreatedUnder(last.node)))) =>
        \A h \in FirstHooks(last.op) :
            DispatchedOver(EffectiveChain(CreatedUnder(last.node)), h)

\* The chain the plugin lists and the scope tree give for scope S now: the
\* global plugins alone for the global scope and for a disposed scope.
FreshChain(S) ==
    IF S = NoId \/ ~Live(S) THEN globalPluginRegistry ELSE EffectiveChain(S)

\* What the cached resolution returns for every tagged node, asked through
\* the proxy or through its target, is the fresh chain of its scope.
Coherent ==
    \A n \in Objects : \A side \in {"proxy", "target"} :
        (heap[n].proxied /\ Tagged(heap[n].meta)) =>
            getApplicablePlugins(n, side, heap[n].meta.instanceId, registries,
                                 pluginCache).chain = FreshChain(ScopeOf(n))

\* The last operation changed a plugin list or disposed a live scope.
ChangedRegistry(before) ==
    \/ last.op = "use" /\ last.ret # Thrown
    \/ last.op = "removePlugin" /\ last.ret = JsTrue
    \/ last.op = "clearPlugins"
    \/ last.op = "dispose" /\ last.scope \in before

\* C25 (cache coherence): the generation counter never decreases; every
\* use, every removePlugin that removes, every clearPlugins and every
\* dispose of a live scope increases it; and after every step the chain that
\* the cached resolution returns for a tagged node is the chain computed
\* from the plugin lists and the scope tree as they are.
C25_CacheCoherence ==
    [][/\ pluginCacheGeneration' >= pluginCacheGeneration
       /\ ChangedRegistry(instanceRegistry)' =>
                pluginCacheGeneration' > pluginCacheGeneration
       /\ Coherent'
      ]_vars

\* After two changes of the plugin lists the per-object cache holds a
\* current entry for a tagged node of a live instance scope with a chain of
\* more than one plugin.
C25_Witness ==
    /\ pluginCacheGeneration >= 2
    /\ \E n \in Objects :
            /\ heap[n].proxied /\ Tagged(heap[n].meta)
            /\ Live(ScopeOf(n))
            /\ pluginCache[<<n, "proxy">>].set
            /\ pluginCache[<<n, "proxy">>].gen = pluginCacheGeneration
            /\ Len(pluginCache[<<n, "proxy">>].plugins) > 1
            /\ pluginCache[<<n, "proxy">>].plugins = EffectiveChain(ScopeOf(n))

\* The scope and the root of every tagged node are after the step what they
\* were before it.
TagsKept ==
    \A n \in Objects :
        Tagged(heap[n].meta) =>
            /\ heap'[n].meta.instanceId = heap[n].meta.instanceId
            /\ heap'[n].meta.rootProxy = heap[n].meta.rootProxy

\* A read or write on a tagged node has dispatched the chain of the scope
\* the node was tagged with.
OwnChainDispatched ==
    (/\ last'.op \in {"read", "write"}
     /\ last'.ret # Thrown
     /\ Tagged(heap[last'.node].meta)
     /\ ~NoPlugins) =>
        last'.chain = FreshChain(ScopeOf(last'.node))

\* C26 (tag immutability): no step changes the scope or the root of a node
\* that has them, be it a root creation, a read, a write, a registration of
\* plugins or the write of the node into the tree of another scope; and a
\* read or write on a tagged node dispatches the chain of the scope the node
\* is tagged with, whatever tree it was reached through.
C26_TagImmutability == [][TagsKept /\ OwnChainDispatched]_vars

\* Every step other than a root creation keeps the tags, and every read and
\* write dispatches the chain of the node's own scope.
C26_KeptOutsideCreation ==
    [][(last'.op # "createProxy" => TagsKept) /\ OwnChainDispatched]_vars

\* The step is a read of a tagged node that returns an object which had no
\* root before the read.
ReadsUntagged ==
    /\ last'.op = "read"
    /\ last'.ret # Thrown
    /\ Tagged(heap[last'.node].meta)
    /\ IsRef(last'.ret)
    /\ ObjOf(last'.ret) # last'.node
    /\ ~hasRootProxy(heap, ObjOf(last'.ret))

\* The object the read returned has the root and the scope of the node read
\* and the path of the node extended by the key.
ResultTagged ==
    LET o == ObjOf(last'.ret)
        m == heap[last'.node].meta
    IN  /\ heap'[o].meta.rootProxy = m.rootProxy
        /\ heap'[o].meta.instanceId = m.instanceId
        /\ heap'[o].meta.path = m.path \o <<last'.key>>

\* C27 (unconditional propagation): every read of a tagged node that returns
\* an untagged object tags the object with the root and scope of the node,
\* also when no plugin and no instance exists.
C27_UnconditionalPropagation == [][ReadsUntagged => ResultTagged]_vars

\* The propagation as the get trap does it: in every such read made while a
\* global plugin or an instance exists.
C27_PropagationPastFastPath ==
    [][(ReadsUntagged /\ ~NoPlugins) => ResultTagged]_vars

\* The last operation was a read that returned, of a tagged node of the
\* global scope or of a live instance scope.
ReadOfLive ==
    /\ OnTagged("read")
    /\ last.ret # Thrown
    /\ (ScopeOf(last.node) = NoId \/ Live(ScopeOf(last.node)))

\* The onGetRaw calls of the last read are made on the plugins of chain that
\* have the hook, once each in chain order, with the key, the node and the
\* stored value.
RawDispatchedOver(chain) ==
    /\ DispatchedOver(chain, "onGetRaw")
    /\ \A i \in CallsOf("onGetRaw") :
            /\ last.calls[i].path = <<last.key>>
            /\ last.calls[i].value = last.prev
            /\ last.calls[i].root = last.node

\* The count the get trap looks at is positive: the global count, or the
\* count written on the node.
RawCounted ==
    \/ globalRawHooksCount > 0
    \/ /\ heap[last.node].meta.rawHooksCount # Undefined
       /\ heap[last.node].meta.rawHooksCount > 0

\* C28 (raw-read dispatch): in every read of a tagged node, the onGetRaw hook
\* of every plugin of the effective chain of the node's scope that has one is
\* called once, with (node, key, node, stored value), also when the plugin
\* was registered after the root was created.
C28_RawReadDispatch ==
    ReadOfLive => RawDispatchedOver(EffectiveChain(ScopeOf(last.node)))

\* The dispatch as the get trap does it: over the effective chain when the
\* count it looks at is positive, over nothing otherwise.
C28_DispatchWhenCounted ==
    ReadOfLive =>
        RawDispatchedOver(IF RawCounted THEN EffectiveChain(ScopeOf(last.node))
                          ELSE <<>>)

\* C29 (raw-read error isolation): in every read in which an onGetRaw hook
\* threw, the read does not throw, the onGetRaw, onGet and transformGet hooks
\* of every plugin of the chain are called all the same, and the value
\* returned is the one the transformGet hooks make of the stored value.
C29_RawReadIsolation ==
    (/\ last.op = "read"
     /\ \E i \in CallsOf("onGetRaw") : last.calls[i].ret = Thrown) =>
        /\ last.ret # Thrown
        /\ \A h \in {"onGetRaw", "onGet", "transformGet"} :
                {last.calls[i].pos : i \in CallsOf(h)} = Having(h)
        /\ last.ret = Final("transformGet", last.prev)

\* The last operation was a read of a node without a root or without a
\* scope.
ReadOfUntagged == last.op = "read" /\ ~Tagged(heap[last.node].meta)

\* C30 (read gating): a read of an untagged node calls no onGetRaw, onGet or
\* transformGet hook and returns the value stored under the key.
C30_ReadGating ==
    ReadOfUntagged => (last.calls = <<>> /\ last.ret = last.prev)

\* The gate as the get trap has it: a read of an untagged node calls no
\* onGet and no transformGet hook, and returns the stored value unless an
\* onGetRaw hook threw.
C30_ObservationGated ==
    ReadOfUntagged =>
        /\ CallsOf("onGet") = {} /\ CallsOf("transformGet") = {}
        /\ last.ret \in {last.prev, Thrown}

\* ---------------------------------------------------------------- C31
\* The node lacks the tag of its root or the tag of its scope.
Untagged(n) == heap[n].meta.rootProxy = 0 \/ heap[n].meta.instanceId = NoId

\* The last operation was a write or a delete that passes through: its key
\* is a metadata symbol, or its node is untagged; or it was a root creation,
\* whose assignments all happen during the initial construction.
PassesThrough ==
    \/ last.op \in {"writeTag", "deleteTag"}
    \/ last.op \in {"write", "delete"} /\ last.ret # Thrown /\ Untagged(last.node)
    \/ last.op = "createProxy" /\ last.ret # Thrown

\* What the substrate alone does with the operation.
DelegatedUnchanged ==
    /\ last.op = "write" => Stored = last.arg
    /\ last.op = "delete" => Stored = Undefined
    /\ last.op = "writeTag" /\ Writable(last.key)
            => heap[last.node].meta[last.key] = last.arg
    /\ last.op = "deleteTag"
            => heap[last.node].meta[last.key] = NoMeta[last.key]

\* C31: a write or delete of a metadata-tag key, on an untagged node, or
\* during the initial construction of a tree is delegated unchanged, calls no
\* transformSet, beforeChange or afterChange hook, and leaves
\* currentInstanceContext as it was.
C31_WritePassThrough ==
    [][PassesThrough' =>
        /\ DelegatedUnchanged'
        /\ CallsOf("transformSet")' = {}
        /\ CallsOf("beforeChange")' = {}
        /\ CallsOf("afterChange")' = {}
        /\ currentInstanceContext' = currentInstanceContext]_vars

\* a write of 1 to a node that was never tagged, with a global plugin that
\* has the three hooks
C31_Witness ==
    /\ last.op = "write" /\ heap[last.node].meta = NoMeta /\ Stored = 1
    /\ \E i \in 1..Len(globalPluginRegistry) :
            HasHook(globalPluginRegistry[i], "transformSet")
\* ---------------------------------------------------------------- C34
\* The last operation created a root from a fresh initial state.
RootCreated == last.op = "createProxy" /\ last.ret # Thrown /\ last.arg > 0

\* C34 (onInit count), as the specification states it: the creation of one
\* root under a scope calls onInit exactly once on every plugin of the
\* effective chain of the scope that has the hook, however many nested
\* objects the initial state has and whether or not global plugins are
\* registered; the root is created also when an onInit hook throws.
C34_OnInitCount ==
    RootCreated =>
        /\ last.chain = FreshChain(last.scope)
        /\ OncePerPlugin("onInit")
        /\ last.ret = Ref(last.node) /\ heap[last.node].proxied

\* The same count for the creations that find no global plugin registered.
C34_OnceWithoutGlobals ==
    (RootCreated /\ Len(globalPluginRegistry) = 0) =>
        /\ last.chain = FreshChain(last.scope)
        /\ OncePerPlugin("onInit")
        /\ last.ret = Ref(last.node) /\ heap[last.node].proxied
\* ---------------------------------------------------------------- C35
\* The object the keys of path lead to from object r in the heap hp, 0 if
\* they lead to none.
RECURSIVE Follow(_, _, _)
Follow(hp, r, path) ==
    IF Len(path) = 0 THEN r
    ELSE IF r \in DOMAIN hp /\ IsRef(hp[r].fields[Head(path)])
    THEN Follow(hp, ObjOf(hp[r].fields[Head(path)]), Tail(path))
    ELSE 0

\* path is the keys from r to n in hp, followed by key.
LeadsTo(hp, r, path, n, key) ==
    /\ Len(path) > 0
    /\ path[Len(path)] = key
    /\ Follow(hp, r, SubSeq(path, 1, Len(path) - 1)) = n

ChangeHooks == {"transformSet", "beforeChange", "afterChange"}

\* The sequences of at most two keys, and whether one of them leads from the
\* root that n is tagged with to n.
KeyPaths == {<<>>} \cup {<<k>> : k \in Keys} \cup {<<k, l>> : k, l \in Keys}

ReachedFromRoot(hp, n) ==
    \E path \in KeyPaths : Follow(hp, hp[n].meta.rootProxy, path) = n

\* C35 (path accuracy), as the specification states it: in every write to
\* and delete on a tagged node, every hook receives the property keys that
\* lead from the root it is given to the node, as the tree is when the
\* operation starts, followed by the key of the operation; also after the
\* node has been assigned under a second key or moved.
C35_PathAccuracy ==
    [][(/\ last'.op \in {"write", "delete"}
        /\ Tagged(heap[last'.node].meta)
        /\ ReachedFromRoot(heap, last'.node)) =>
        \A i \in 1..Len(last'.calls) :
            last'.calls[i].hook \in ChangeHooks =>
                LeadsTo(heap, last'.calls[i].root, last'.calls[i].path,
                        last'.node, last'.key)]_vars

\* The path the hooks receive is the path the node was first read at,
\* followed by the key.
C35_PathOfFirstRead ==
    [][(last'.op \in {"write", "delete"} /\ Tagged(heap[last'.node].meta)) =>
        \A i \in 1..Len(last'.calls) :
            last'.calls[i].hook \in ChangeHooks =>
                /\ last'.calls[i].path = Append(heap[last'.node].meta.path, last'.key)
                /\ last'.calls[i].root = heap[last'.node].meta.rootProxy]_vars
\* ---------------------------------------------------------------- C36
\* The descriptors in the list of a disposed scope that are neither in the
\* global list nor in the list of a scope that is not disposed.
DisposedOnly ==
    UNION {Members(registries[S].plugins) : S \in {D \in Instances : ~Live(D)}}
    \ (Members(globalPluginRegistry)
       \cup UNION {Members(registries[S].plugins) : S \in {D \in Instances : Live(D)}})

\* The last operation was a read, write or delete, or a subscribe or
\* snapshot through the global handle or the handle of a live scope.
LaterOperation ==
    \/ last.op \in {"read", "write", "delete"}
    \/ last.op \in {"subscribe", "snapshot"}
            /\ (last.scope = NoId \/ Live(last.scope))

\* C36 (no hook after disposal): once a scope is disposed, a read, write,
\* delete, subscribe or snapshot calls no hook of a plugin that is registered
\* only on disposed scopes, also on a root that was created under one of
\* them: on the nodes of such a root the operation dispatches the global
\* list alone.  The operation completes: it throws only where an onGetRaw
\* hook of the remaining chain throws.
C36_NoHookAfterDisposal ==
    LaterOperation =>
        /\ \A i \in 1..Len(last.calls) : last.calls[i].plugin \notin DisposedOnly
        /\ (/\ Tagged(heap[last.node].meta)
            /\ ScopeOf(last.node) \in Instances
            /\ ~Live(ScopeOf(last.node))) =>
                \A i \in 1..Len(last.calls) :
                    last.calls[i].plugin \in Members(globalPluginRegistry)
        /\ last.ret = Thrown =>
                \E i \in CallsOf("onGetRaw") : last.calls[i].ret = Thrown

\* a write to a root of a disposed scope whose list has a plugin with
\* beforeChange, which the global list does not have
C36_Witness ==
    /\ last.op = "write" /\ Stored = last.arg
    /\ Tagged(heap[last.node].meta)
    /\ ScopeOf(last.node) \in Instances /\ ~Live(ScopeOf(last.node))
    /\ \E p \in DisposedOnly : HasHook(p, "beforeChange")
    /\ \E p \in Members(registries[ScopeOf(last.node)].plugins) : p \in DisposedOnly
\* ---------------------------------------------------------------- C39
\* The last operation was instance.subscribe or instance.snapshot through the
\* handle of a live instance, on a root of the global scope or of a live
\* instance scope.
ThroughInstanceHandle ==
    /\ last.op \in {"subscribe", "snapshot"}
    /\ last.scope # NoId
    /\ ThroughLiveHandle(last.op)

\* C39 (wrapper hook gating): instance.subscribe and instance.snapshot on a
\* live instance call the onSubscribe resp. onSnapshot hooks exactly when the
\* root was created under that instance or under a scope below it, and then
\* on every plugin of the effective chain of the root; for a root of the
\* global scope, of a scope above or of an unrelated scope no hook is
\* called.  In both cases the substrate's result is returned.
C39_WrapperGating ==
    ThroughInstanceHandle =>
        LET own == last.scope \in Members(AncestorsDown(CreatedUnder(last.node)))
            chain == IF own THEN EffectiveChain(CreatedUnder(last.node)) ELSE <<>>
        IN  /\ last.op = "subscribe" =>
                    /\ last.ret = originalSubscribe(last.node)
                    /\ CalledOver(chain, "onSubscribe", Ref(last.node))
            /\ last.op = "snapshot" =>
                    /\ last.ret = originalSnapshot(heap, last.node)
                    /\ CalledOver(chain, "onSnapshot",
                                  originalSnapshot(heap, last.node))
            /\ ~own => last.calls = <<>>

\* instance.snapshot on a root of the global scope while a global plugin has
\* an onSnapshot hook: no hook is called
C39_Witness ==
    /\ ThroughInstanceHandle
    /\ last.op = "snapshot"
    /\ CreatedUnder(last.node) = NoId
    /\ \E i \in 1..Len(globalPluginRegistry) :
            HasHook(globalPluginRegistry[i], "onSnapshot")
    /\ last.calls = <<>>
    /\ last.ret = originalSnapshot(heap, last.node)
\* ---------------------------------------------------------------- C33
\* The last operation was a disposal during which an onDispose hook called
\* dispose on the scope that was being disposed.
ReentrantDisposal ==
    /\ last.op = "dispose"
    /\ \E i \in CallsOf("onDispose") : last.calls[i].plugin = "D"

\* C33 (reentrant disposal), as the specification states it: when an
\* onDispose hook running during the disposal of S calls dispose(S), the
\* nested call does not do the work again: no onDispose hook of any scope is
\* invoked a second time, and the outer disposal completes without error,
\* leaving S disposed.
C33_ReentrantDisposal ==
    ReentrantDisposal =>
        /\ \A i, j \in CallsOf("onDispose") :
                (/\ last.calls[i].inst = last.calls[j].inst
                 /\ last.calls[i].pos = last.calls[j].pos) => i = j
        /\ last.ret # Thrown
        /\ ~Live(last.scope)

\* The nested and the outer call both return, and the scope and every scope
\* that was below it when the hooks of its children had run are disposed.
C33_DisposalCompletes ==
    ReentrantDisposal =>
        /\ last.ret # Thrown
        /\ ~Live(last.scope)
        /\ last.scope \notin instanceRegistry

\* ---------------------------------------------------------------- C37
\* C37 (scope-tree consistency), as the specification states it: after any
\* createInstance and dispose calls, calls made from hooks during a disposal
\* included, every scope that is not disposed has a parent that is not
\* disposed (hence no disposed ancestor) and is in the child set of its
\* parent, and every id in a child set is a live scope whose parent is the
\* scope of the set.
C37_TreeConsistency ==
    Idle =>
        /\ \A S \in Instances :
                (Live(S) /\ registries[S].parentId # NoId) =>
                    /\ Live(registries[S].parentId)
                    /\ S \in registries[registries[S].parentId].children
        /\ \A S \in Instances : \A c \in registries[S].children :
                /\ c \in Instances /\ Live(c)
                /\ registries[c].parentId = S
        /\ \A S \in Instances : Live(S) <=> S \in instanceRegistry
\* ---------------------------------------------------------------- C38
\* The plugins whose hook h the last operation called, in the order of the
\* calls, and the plugins of the chain it resolved that have hook h.
CalledFor(h) ==
    LET of == SelectSeq(last.calls, LAMBDA c : c.hook = h)
    IN  [i \in 1..Len(of) |-> of[i].plugin]

ResolvedFor(h) == SelectSeq(last.chain, LAMBDA p : HasHook(p, h))

IsPrefix(s, t) == Len(s) <= Len(t) /\ \A i \in 1..Len(s) : s[i] = t[i]

Vetoed ==
    \E i \in 1..Len(last.calls) :
        last.calls[i].hook = "beforeChange" /\ last.calls[i].ret = JsFalse

\* A write none of whose hooks writes: every call in its log is its own.
WriteOfItsOwn ==
    /\ OnTagged("write")
    /\ \A i \in 1..Len(last.chain) : last.chain[i] # "W"
    /\ \A i \in 1..Len(globalPluginRegistry) : globalPluginRegistry[i] # "W"

\* The hooks of the three phases of a write are those of the chain the write
\* resolved.
PhasesFollow(chain) ==
    /\ CalledFor("transformSet") = ResolvedFor("transformSet")
    /\ IsPrefix(CalledFor("beforeChange"), ResolvedFor("beforeChange"))
    /\ ~Vetoed => /\ CalledFor("beforeChange") = ResolvedFor("beforeChange")
                  /\ CalledFor("afterChange") = ResolvedFor("afterChange")

\* C38: the plugin chain a write uses is fixed when the write resolves it: a
\* hook that registers or clears plugins during the dispatch does not change
\* which plugins' hooks run in the remaining phases of the write, on a global
\* root as on an instance root.
C38_ChainStability == WriteOfItsOwn => PhasesFollow(last.chain)

\* On the nodes of an instance the phases of a write follow the chain the
\* write resolved, whatever its hooks register or clear.
C38_StableOnInstanceRoots ==
    (WriteOfItsOwn /\ heap[last.node].meta.isGlobal # JsTrue)
        => PhasesFollow(last.chain)

\* A write on an instance root one of whose hooks registered a plugin.
C38_InstanceWitness ==
    /\ WriteOfItsOwn
    /\ heap[last.node].meta.isGlobal # JsTrue
    /\ \E i \in 1..Len(last.calls) : last.calls[i].hook = "onAttach"
\* ---------------------------------------------------------------- C32
\* The values of the marker under which the substrate works on a node of
\* root r: the id of the instance of r; for a global root the empty marker
\* (set trap) or the id of the global root (deleteProperty trap), which is a
\* key of no registry.
Marks(r) ==
    IF heap[r].meta.isGlobal = JsTrue THEN {NoId, GlobalId}
    ELSE {heap[r].meta.instanceId}

\* A write or a delete on a tagged node none of whose hooks writes.
OfItsOwn ==
    /\ OnTagged("write") \/ OnTagged("delete")
    /\ \A i \in 1..Len(last.chain) : last.chain[i] # "W"
    /\ \A i \in 1..Len(globalPluginRegistry) : globalPluginRegistry[i] # "W"

ChangeCalls(hooks) ==
    {i \in 1..Len(last.calls) : last.calls[i].hook \in hooks}

====
